---- MODULE Spec2Model ----
(***************************************************************************)
(* Classification-and-action pipeline of the email agent:                  *)
(*   - the rule engine (worker/rules/rules_parser.py),                     *)
(*   - the action dispatcher and the bulk operations                       *)
(*     (worker/actions/email_actions.py),                                  *)
(*   - the single-email classification task                                *)
(*     (worker/tasks/email_classification.py).                             *)
(* Strings are sequences of one-character strings so that lower-casing,    *)
(* substring tests and '|' splitting are computed, not assumed.            *)
(***************************************************************************)
EXTENDS Integers, Sequences, FiniteSets, TLC

VARIABLES
    ruleFile,      \* content of <rules_dir>/global_rules.yaml
    rules,         \* RulesParser.rules  (in-memory list)
    last_loaded,   \* RulesParser.last_loaded is set (TRUE) or None (FALSE)
    probe,         \* last direct call made to the rule engine and its result
    store,         \* committed Email rows, by id
    conns,         \* every connector object created so far, with its state
    act,           \* frame of apply_classification_action
    bc,            \* frame of bulk_classify_pending_emails / classify_single_email
    bm,            \* frame of bulk_move_emails
    lb,            \* frame of apply_label
    ncalls,        \* tasks and direct calls started so far
    dbFaulty,      \* whether session.commit() may raise in this run
    noAccount,     \* ids of the Email rows whose EmailAccount row is gone
    bm2,           \* frame of a second, concurrent bulk_move_emails
    bc2            \* frame of a second, concurrent bulk_classify_pending_emails

ruleVars == <<ruleFile, rules, last_loaded, probe>>
pipeVars == <<store, conns, act, bc, bm, lb>>
vars == <<ruleFile, rules, last_loaded, probe, store, conns, act, bc, bm, lb,
          ncalls, dbFaulty, noAccount, bm2, bc2>>

None == "None"

----------------------------------------------------------------------------
(* Bounds *)

MaxRules == 3        \* longest rule file drawn for the rule-engine runs
NEmails == 2         \* Email rows in the store, ids 1..NEmails
MaxBatch == 2        \* longest id list given to bulk_move_emails
MaxCalls == 2        \* tasks and direct calls started in one run

----------------------------------------------------------------------------
(* Strings *)

LowerChar(c) ==
    CASE c = "A" -> "a" [] c = "B" -> "b" [] c = "C" -> "c" [] c = "D" -> "d"
      [] c = "E" -> "e" [] c = "F" -> "f" [] c = "G" -> "g" [] c = "H" -> "h"
      [] c = "I" -> "i" [] c = "J" -> "j" [] c = "K" -> "k" [] c = "L" -> "l"
      [] c = "M" -> "m" [] c = "N" -> "n" [] c = "O" -> "o" [] c = "P" -> "p"
      [] c = "Q" -> "q" [] c = "R" -> "r" [] c = "S" -> "s" [] c = "T" -> "t"
      [] c = "U" -> "u" [] c = "V" -> "v" [] c = "W" -> "w" [] c = "X" -> "x"
      [] c = "Y" -> "y" [] c = "Z" -> "z" [] OTHER -> c

\* str.lower()
Lower(s) == [i \in 1..Len(s) |-> LowerChar(s[i])]

\* pattern in text
Contains(text, p) ==
    \E i \in 1..(Len(text) - Len(p) + 1) : SubSeq(text, i, i + Len(p) - 1) = p

\* str.strip() (blank is the only whitespace of the alphabet)
RECURSIVE Strip(_)
Strip(s) ==
    IF s = <<>> THEN s
    ELSE IF Head(s) = " " THEN Strip(Tail(s))
    ELSE IF s[Len(s)] = " " THEN Strip(SubSeq(s, 1, Len(s) - 1))
    ELSE s

\* str.split('|')
RECURSIVE SplitBar(_, _)
SplitBar(s, cur) ==
    IF s = <<>> THEN <<cur>>
    ELSE IF Head(s) = "|" THEN <<cur>> \o SplitBar(Tail(s), <<>>)
    ELSE SplitBar(Tail(s), Append(cur, Head(s)))

Split(s) == SplitBar(s, <<>>)

Str(s) == [kind |-> "str", s |-> s]
Bool(b) == [kind |-> "bool", b |-> b]

NoneV == [kind |-> "none"]

\* (value or '')
OrEmpty(v) == IF v.kind = "str" THEN v.s ELSE <<>>

UpperLetters ==
    <<"A","B","C","D","E","F","G","H","I","J","K","L","M",
      "N","O","P","Q","R","S","T","U","V","W","X","Y","Z">>

LowerLetters ==
    <<"a","b","c","d","e","f","g","h","i","j","k","l","m",
      "n","o","p","q","r","s","t","u","v","w","x","y","z">>

UpperChar(c) ==
    IF \E i \in 1..26 : LowerLetters[i] = c
    THEN UpperLetters[CHOOSE i \in 1..26 : LowerLetters[i] = c]
    ELSE c

\* str.upper()
Upper(s) == [i \in 1..Len(s) |-> UpperChar(s[i])]

----------------------------------------------------------------------------
(* EmailCategory (api.models, enum values as in the schema migration) *)

EmailCategory ==
    {"INVOICE", "RECEIPT", "DOCUMENT", "PROFESSIONAL", "NEWSLETTER",
     "PROMOTION", "SOCIAL", "NOTIFICATION", "PERSONAL", "SPAM", "UNKNOWN"}

CategoryNames ==
    [INVOICE      |-> <<"I","N","V","O","I","C","E">>,
     RECEIPT      |-> <<"R","E","C","E","I","P","T">>,
     DOCUMENT     |-> <<"D","O","C","U","M","E","N","T">>,
     PROFESSIONAL |-> <<"P","R","O","F","E","S","S","I","O","N","A","L">>,
     NEWSLETTER   |-> <<"N","E","W","S","L","E","T","T","E","R">>,
     PROMOTION    |-> <<"P","R","O","M","O","T","I","O","N">>,
     SOCIAL       |-> <<"S","O","C","I","A","L">>,
     NOTIFICATION |-> <<"N","O","T","I","F","I","C","A","T","I","O","N">>,
     PERSONAL     |-> <<"P","E","R","S","O","N","A","L">>,
     SPAM         |-> <<"S","P","A","M">>,
     UNKNOWN      |-> <<"U","N","K","N","O","W","N">>]

\* EmailCategory[category_str]: the member of that name, or None (KeyError)
CategoryLookup(name) ==
    IF \E c \in EmailCategory : CategoryNames[c] = name
    THEN CHOOSE c \in EmailCategory : CategoryNames[c] = name
    ELSE None

----------------------------------------------------------------------------
(* ClassificationRule *)

\* The pattern is searched as one literal, '|' included.
CheckContainsLiteral(text, pattern) == Contains(text, Lower(pattern))

\* ClassificationRule._check_contains(text, pattern)
CheckContains(text, pattern) ==
    IF \E i \in 1..Len(pattern) : pattern[i] = "|"
    THEN LET patterns == [i \in 1..Len(Split(pattern)) |->
                              Lower(Strip(Split(pattern)[i]))]
         IN  \E i \in 1..Len(patterns) : Contains(text, patterns[i])
    ELSE Contains(text, Lower(pattern))

ConditionTypes ==
    {"sender_contains", "sender_equals", "subject_contains", "subject_equals",
     "body_contains", "has_attachments", "attachment_name_contains"}

\* A condition of an unknown type rejects the email.
UnknownConditionRejects == "fail"

\* The else branch of the chain: a warning is logged, the loop goes on
UnknownCondition == "ok"

\* One branch of the if/elif chain of ClassificationRule.matches:
\* "ok" (falls through to the next condition), "fail" (return False) or
\* "raise" (an exception, which matches turns into False).
ConditionResult(ctype, cvalue, email_data) ==
    LET subject == Lower(OrEmpty(email_data.subject))
        sender  == Lower(OrEmpty(email_data.sender))
        body    == Lower(OrEmpty(email_data.body_preview))
        has_attachments == email_data.has_attachments
        isStr   == cvalue.kind = "str"
    IN  CASE ctype = "sender_contains" ->
               IF ~isStr THEN "raise"
               ELSE IF CheckContains(sender, cvalue.s) THEN "ok" ELSE "fail"
          [] ctype = "sender_equals" ->
               IF ~isStr THEN "raise"
               ELSE IF sender = Lower(cvalue.s) THEN "ok" ELSE "fail"
          [] ctype = "subject_contains" ->
               IF ~isStr THEN "raise"
               ELSE IF CheckContains(subject, cvalue.s) THEN "ok" ELSE "fail"
          [] ctype = "subject_equals" ->
               IF ~isStr THEN "raise"
               ELSE IF subject = Lower(cvalue.s) THEN "ok" ELSE "fail"
          [] ctype = "body_contains" ->
               IF ~isStr THEN "raise"
               ELSE IF CheckContains(body, cvalue.s) THEN "ok" ELSE "fail"
          [] ctype = "has_attachments" ->
               IF cvalue.kind = "bool" /\ cvalue.b = has_attachments
               THEN "ok" ELSE "fail"
          [] ctype = "attachment_name_contains" ->
               LET names == email_data.attachment_names
               IN  IF names = <<>> THEN "fail"
                   ELSE IF ~isStr THEN "raise"
                   ELSE IF \E i \in 1..Len(names) :
                              Contains(Lower(names[i]), Lower(cvalue.s))
                        THEN "ok" ELSE "fail"
          [] OTHER -> UnknownCondition

\* The loop of ClassificationRule.matches over conditions.items(), from
\* the i-th condition on.
RECURSIVE MatchesFrom(_, _, _)
MatchesFrom(conditions, i, email_data) ==
    IF i > Len(conditions) THEN TRUE
    ELSE IF ConditionResult(conditions[i][1], conditions[i][2], email_data) # "ok"
         THEN FALSE
         ELSE MatchesFrom(conditions, i + 1, email_data)

\* One satisfied condition is enough.
MatchesAny(rule, email_data) ==
    \E i \in 1..Len(rule.conditions) :
        ConditionResult(rule.conditions[i][1], rule.conditions[i][2],
                        email_data) = "ok"

\* ClassificationRule.matches(email_data)
Matches(rule, email_data) == MatchesFrom(rule.conditions, 1, email_data)

----------------------------------------------------------------------------
(* RulesParser *)

\* RulesParser._parse_rule(rule_data): the rule, or NoneV when the entry is
\* rejected.  line is the position of the entry in the file (kept to state
\* source order; the code has no such field).
ParseRule(rule_data, line) ==
    LET name == rule_data.name
        conditions == rule_data.conditions
        category_str == Upper(IF rule_data.category.kind = "str"
                              THEN rule_data.category.s
                              ELSE <<"u","n","k","n","o","w","n">>)
        category == CategoryLookup(category_str)
    IN  IF name = None \/ name = "" THEN NoneV
        ELSE IF conditions = <<>> THEN NoneV
        ELSE IF category = None THEN NoneV
        ELSE [kind |-> "rule",
              name |-> name,
              conditions |-> conditions,
              category |-> category,
              folder |-> rule_data.folder,
              auto_delete |-> rule_data.auto_delete,
              priority |-> rule_data.priority,
              line |-> line]

\* The loop gives up at the first rejected entry.
RECURSIVE LoadEntriesUntilRejected(_, _, _)
LoadEntriesUntilRejected(entries, i, acc) ==
    IF i > Len(entries) THEN acc
    ELSE LET rule == ParseRule(entries[i], i)
         IN  IF rule.kind = "rule"
             THEN LoadEntriesUntilRejected(entries, i + 1, Append(acc, rule))
             ELSE acc

\* The loop of RulesParser._load_rules_file over data['rules'], from the
\* i-th entry on, appending to acc (self.rules).
RECURSIVE LoadEntries(_, _, _)
LoadEntries(entries, i, acc) ==
    IF i > Len(entries) THEN acc
    ELSE LET rule == ParseRule(entries[i], i)
         IN  LoadEntries(entries, i + 1,
                         IF rule.kind = "rule" THEN Append(acc, rule) ELSE acc)

\* RulesParser._load_rules_file(file_path), self.rules being empty on entry
LoadRulesFile(file) ==
    IF file.kind = "ok" THEN LoadEntries(file.entries, 1, <<>>)
    ELSE <<>>     \* unparseable YAML: the exception is logged, nothing added

\* list.sort(key=priority, reverse=True): stable, so equal priorities keep
\* their order.  Insert r behind every element of priority >= r.priority.
RECURSIVE InsertByPriority(_, _)
InsertByPriority(sorted, r) ==
    IF sorted = <<>> THEN <<r>>
    ELSE IF Head(sorted).priority >= r.priority
         THEN <<Head(sorted)>> \o InsertByPriority(Tail(sorted), r)
         ELSE <<r>> \o sorted

RECURSIVE SortFrom(_, _, _)
SortFrom(seq, i, acc) ==
    IF i > Len(seq) THEN acc
    ELSE SortFrom(seq, i + 1, InsertByPriority(acc, seq[i]))

\* A sort that is not stable: ties come out in reverse source order.
RECURSIVE InsertBeforeTies(_, _)
InsertBeforeTies(sorted, r) ==
    IF sorted = <<>> THEN <<r>>
    ELSE IF Head(sorted).priority > r.priority
         THEN <<Head(sorted)>> \o InsertBeforeTies(Tail(sorted), r)
         ELSE <<r>> \o sorted

RECURSIVE SortFromUnstable(_, _, _)
SortFromUnstable(seq, i, acc) ==
    IF i > Len(seq) THEN acc
    ELSE SortFromUnstable(seq, i + 1, InsertBeforeTies(acc, seq[i]))

SortByPriorityUnstable(seq) == SortFromUnstable(seq, 1, <<>>)

SortByPriority(seq) == SortFrom(seq, 1, <<>>)

\* A file that cannot be parsed leaves the rules that were loaded before.
LoadRulesKeepingOnFailure(curRules, curLoaded, file, force_reload) ==
    IF ~force_reload /\ curRules # <<>> /\ curLoaded
    THEN [rules |-> curRules, last_loaded |-> curLoaded]
    ELSE [rules |-> IF file.kind = "malformed" THEN curRules
                    ELSE SortByPriority(IF file.kind = "missing" THEN <<>>
                                        ELSE LoadRulesFile(file)),
          last_loaded |-> TRUE]

\* RulesParser.load_rules(force_reload): the new (rules, last_loaded)
LoadRulesResult(curRules, curLoaded, file, force_reload) ==
    IF ~force_reload /\ curRules # <<>> /\ curLoaded
    THEN [rules |-> curRules, last_loaded |-> curLoaded]
    ELSE [rules |-> SortByPriority(IF file.kind = "missing" THEN <<>>
                                   ELSE LoadRulesFile(file)),
          last_loaded |-> TRUE]

\* The for loop of find_matching_rule: first rule of the list that matches
RECURSIVE FirstMatch(_, _, _)
FirstMatch(rs, i, email_data) ==
    IF i > Len(rs) THEN NoneV
    ELSE IF Matches(rs[i], email_data) THEN rs[i]
    ELSE FirstMatch(rs, i + 1, email_data)

\* RulesParser.find_matching_rule(email_data): the parser state after the
\* lazy load, and the rule returned (NoneV for None)
FindMatchingRule(curRules, curLoaded, file, email_data) ==
    LET st == IF curRules = <<>>
              THEN LoadRulesResult(curRules, curLoaded, file, FALSE)
              ELSE [rules |-> curRules, last_loaded |-> curLoaded]
    IN  [rules |-> st.rules, last_loaded |-> st.last_loaded,
         rule |-> FirstMatch(st.rules, 1, email_data)]

----------------------------------------------------------------------------
(* Inputs of the rule-engine runs *)

s_inv == <<"i","n","v">>
s_cas == <<"c","a","s">>
s_imp == <<"i","m","p">>

Entry(name, priority, conditions, category, folder, auto_delete) ==
    [name |-> name, priority |-> priority, conditions |-> conditions,
     category |-> category, folder |-> folder, auto_delete |-> auto_delete]

RuleEntries ==
    { Entry("generic", 1, << <<"subject_contains", Str(s_inv)>> >>,
            Str(<<"i","n","v","o","i","c","e">>), "Archive", FALSE),
      Entry("specific", 2, << <<"subject_contains", Str(s_inv)>>,
                              <<"sender_contains", Str(s_imp)>> >>,
            Str(<<"I","N","V","O","I","C","E">>), "Important", FALSE),
      Entry("spam_att", 1, << <<"subject_contains", Str(s_cas)>>,
                              <<"has_attachments", Bool(TRUE)>> >>,
            Str(<<"S","P","A","M">>), None, TRUE),
      Entry("vip", 1, << <<"sender_contains", Str(s_imp)>> >>,
            NoneV, "Vip", FALSE),
      Entry("bad", 2, << <<"sender_contains", Str(s_imp)>> >>,
            Str(<<"I","N","V","A","L","I","D">>), None, FALSE),
      Entry(None, 0, << <<"subject_contains", Str(s_inv)>> >>,
            Str(<<"S","P","A","M">>), None, FALSE) }

RECURSIVE SeqsUpTo(_, _)
SeqsUpTo(S, n) ==
    IF n = 0 THEN {<<>>}
    ELSE LET shorter == SeqsUpTo(S, n - 1)
         IN  shorter \cup {Append(q, x) : q \in shorter, x \in S}

IsInjective(q) == \A i, j \in 1..Len(q) : i # j => q[i] # q[j]

\* A readable file holding up to MaxRules different entries in any order,
\* no file at all, or a file that is not valid YAML
RuleFiles ==
    {[kind |-> "ok", entries |-> es] :
        es \in {q \in SeqsUpTo(RuleEntries, MaxRules) : IsInjective(q)}}
    \cup {[kind |-> "missing", entries |-> <<>>],
          [kind |-> "malformed", entries |-> <<>>]}

EmailData(subject, sender, body, has_attachments, names) ==
    [subject |-> subject, sender |-> sender, body_preview |-> body,
     has_attachments |-> has_attachments, attachment_names |-> names]

ProbeEmails ==
    {EmailData(su, se, Str(<<"x">>), ha, <<>>) :
        su \in {Str(<<"I","n","v">>), Str(<<"a","C","A","S","x">>), NoneV},
        se \in {Str(<<"I","m","p">>), Str(<<"y">>)},
        ha \in BOOLEAN}

----------------------------------------------------------------------------
(* The store: Email and EmailAccount rows *)

EmailIds == 1..NEmails
MissingId == 0                  \* an id no Email row has

ProcessingStatus ==
    {"PENDING", "PROCESSING", "CLASSIFIED", "ARCHIVED", "DELETED", "ERROR"}

AccountType == {"IMAP", "GMAIL", "OUTLOOK"}

Fields == {"status", "category", "classification_confidence",
           "classification_reason", "archived_folder", "is_deleted"}

\* The row _save_emails inserts: status PENDING, the other columns at
\* their defaults (-1 stands for a NULL confidence).
NewRow ==
    [status |-> "PENDING", category |-> "UNKNOWN",
     classification_confidence |-> -1, classification_reason |-> NoneV,
     archived_folder |-> None, is_deleted |-> FALSE]

\* Immutable columns of the Email rows (subject, sender, body_preview,
\* has_attachments) and the type of the owning account; None: the account
\* row does not exist.
Profile(id) == ((id - 1) % 4) + 1

\* The last component: the filenames of its email_attachments rows.
EmailRow(id) ==
    CASE Profile(id) = 1 ->
           EmailData(Str(<<"H","i">>), Str(<<"b","o","b">>), Str(<<"x">>), FALSE, <<>>)
      [] Profile(id) = 2 ->
           EmailData(Str(<<"I","n","v"," ","1">>), Str(<<"i","m","p">>), NoneV, TRUE,
                     << <<"I","n","v",".","p","d","f">> >>)
      [] Profile(id) = 3 ->
           EmailData(Str(<<"C","a","s">>), Str(<<"y">>), Str(<<"x">>), TRUE,
                     << <<"c",".","z","i","p">> >>)
      [] OTHER ->
           EmailData(NoneV, Str(<<"y">>), Str(<<"x">>), FALSE, <<>>)

\* The view carries the filenames of the email's attachments.
EmailDataWithAttachmentNames(id) == EmailRow(id)

\* The email_data dict the pipeline builds (email_actions.py 154-160 and
\* 514-520, email_classification.py 92-98): 'attachment_names': []
EmailDataOf(id) == [EmailRow(id) EXCEPT !.attachment_names = <<>>]

AccountOf(id) ==
    CASE id \in noAccount -> None
      [] Profile(id) = 1 -> "IMAP"
      [] Profile(id) = 2 -> "GMAIL"
      [] Profile(id) = 3 -> "OUTLOOK"
      [] OTHER -> None

\* global_rules.yaml of the pipeline runs
PipelineRuleFile ==
    [kind |-> "ok",
     entries |->
       << Entry("Invoice by subject", 100,
                << <<"subject_contains", Str(<<"f","a","c","|","i","n","v">>)>> >>,
                Str(<<"I","N","V","O","I","C","E">>), "Finance/Invoices", FALSE),
          Entry("Spam with attachment", 10,
                << <<"subject_contains", Str(<<"v","i","a","|","c","a","s">>)>>,
                   <<"has_attachments", Bool(TRUE)>> >>,
                Str(<<"S","P","A","M">>), None, TRUE) >>]

\* session.commit(): the pending attribute writes w of row id reach the store
CommitRow(st, id, w) ==
    [st EXCEPT ![id] = [f \in Fields |-> IF f \in DOMAIN w THEN w[f] ELSE @[f]]]

NoWrites == [f \in {} |-> None]

\* obj.attr = value on a loaded row
SetAttr(w, f, v) == (f :> v) @@ w

----------------------------------------------------------------------------
(* Connectors *)

\* _get_connector_for_account(account) constructs a new connector object:
\* its id is the next unused one.
GetConnector(cs) == Len(cs) + 1

\* connector.move_email / delete_email: "true", "false" or "raise".
\* ImapConnector catches every exception; GmailConnector and
\* MicrosoftConnector catch only HttpError / RequestException.
ConnectorOutcomes(account_type) ==
    IF account_type = "IMAP" THEN {"true", "false"}
    ELSE {"true", "false", "raise"}

\* connector.connect(): returns, or raises ConnectionError
ConnectOutcomes == {"ok", "raise"}

\* The state of a connector whose connect() returned (o = "ok") or raised
AfterConnect(o) == IF o = "ok" THEN "connected" ELSE "failed"

\* The finally block releases the connector only when nothing was raised.
DisconnectUnlessRaised(cs, c, raised) ==
    IF c = 0 \/ raised THEN cs ELSE [cs EXCEPT ![c] = "closed"]

\* finally: if connector: connector.disconnect(), on the normal path
\* (raised = FALSE) and on the exception path (raised = TRUE) alike
Disconnect(cs, c, raised) == IF c = 0 THEN cs ELSE [cs EXCEPT ![c] = "closed"]

\* hasattr(connector, 'apply_label'): no connector class defines it
HasApplyLabel(account_type) == FALSE

----------------------------------------------------------------------------
(* Frames *)

IdleAct ==
    [pc |-> "idle", caller |-> None, email_id |-> MissingId, category |-> None,
     target_folder |-> None, should_delete |-> FALSE, actions_taken |-> <<>>,
     conn |-> 0, calls |-> <<>>, pending |-> NoWrites, result |-> None]

IdleBc ==
    [pc |-> "idle", kind |-> None, emails |-> <<>>, i |-> 0,
     processed |-> 0, classified |-> 0, errors |-> 0,
     category |-> None, confidence |-> -1, reason |-> NoneV,
     classifier_calls |-> 0, result |-> None, limit |-> 0,
     dispatched |-> <<>>]

IdleBm ==
    [pc |-> "idle", email_ids |-> <<>>, folder |-> None, i |-> 0,
     succeeded |-> <<>>, failed |-> <<>>, conn |-> 0,
     pending |-> [id \in EmailIds |-> NoWrites], result |-> None, total |-> 0]

IdleLb ==
    [pc |-> "idle", email_id |-> MissingId, label |-> None, conn |-> 0,
     calls |-> 0, result |-> None, error |-> None]

Returned(f) == f.pc \in {"idle", "done"}

\* No invocation is running: a worker is free to take the next task.
TopIdle == Returned(act) /\ Returned(bc) /\ Returned(bm) /\ Returned(lb)

\* A task or a direct call may start
MayStart == TopIdle /\ ncalls < MaxCalls

\* session.commit() may raise only in runs with an unreliable store
CommitOutcomes == IF dbFaulty THEN {TRUE, FALSE} ELSE {TRUE}

\* Outcomes of db.execute(query): TRUE returned rows, FALSE raised
QueryOutcomes == IF dbFaulty THEN {TRUE, FALSE} ELSE {TRUE}

Tag(tag, arg) == [tag |-> tag, arg |-> arg]

\* connector = await _get_connector_for_account(account);
\* connector.connect(); on an exception the finally block disconnects
Acquire(cs, o) ==
    LET c == GetConnector(cs)
        cs1 == IF c > Len(cs) THEN Append(cs, "new") ELSE cs
        cs2 == [cs1 EXCEPT ![c] = AfterConnect(o)]
    IN  IF o = "ok" THEN cs2 ELSE Disconnect(cs2, c, TRUE)

----------------------------------------------------------------------------
(* apply_classification_action *)

\* _get_default_folder_for_category(category)
DefaultFolderForCategory(category) ==
    CASE category = "INVOICE" -> "Finance/Invoices"
      [] category = "RECEIPT" -> "Finance/Receipts"
      [] category = "DOCUMENT" -> "Documents"
      [] category = "NEWSLETTER" -> "Newsletters"
      [] category = "PROMOTION" -> "Promotions"
      [] category = "SOCIAL" -> "Social"
      [] category = "NOTIFICATION" -> "Notifications"
      [] OTHER -> None

\* The folder is taken from the category the caller passed.
TargetFolderOfCategory(rule, category) == DefaultFolderForCategory(category)

\* target_folder of lines 166-178
TargetFolder(rule, category) ==
    IF rule.kind = "rule" THEN rule.folder
    ELSE DefaultFolderForCategory(category)

\* should_delete of lines 166-178
ShouldDelete(rule, category) ==
    IF rule.kind = "rule" THEN rule.auto_delete ELSE category = "SPAM"

\* The failure is swallowed and the invocation goes on to the status
\* update.
AcquireFailedContinues(a, c) == [a EXCEPT !.pc = "commit", !.conn = c]

\* Lines 180-184 and 236-242: _get_connector_for_account or connect()
\* raised; the finally block has run and the outer handler returns the
\* error with the tags collected so far.  c is the connector created, or 0.
AcquireFailed(a, c) == [a EXCEPT !.pc = "done", !.conn = c, !.result = "error"]

\* Only the email row is looked up.
FoundEmailOnly(email_id) == email_id \in EmailIds

\* Lines 139-151: db.get(Email, email_id) and db.get(EmailAccount,
\* email.account_id) both returned a row
Found(email_id) == email_id \in EmailIds /\ AccountOf(email_id) # None

\* Lines 137-184: load the email and the account, match the rules, decide
\* the action, create the connector and connect it.
ActEnter(caller, email_id, category) ==
    IF ~Found(email_id)
    THEN /\ act' = [IdleAct EXCEPT !.pc = "done", !.caller = caller,
                                   !.email_id = email_id,
                                   !.category = category,
                                   !.result = "error"]
         /\ UNCHANGED <<rules, last_loaded, conns>>
    ELSE LET fm == FindMatchingRule(rules, last_loaded, ruleFile,
                                    EmailDataOf(email_id))
             rule == fm.rule
             started == [IdleAct EXCEPT
                           !.caller = caller,
                           !.email_id = email_id,
                           !.category = category,
                           !.target_folder = TargetFolder(rule, category),
                           !.should_delete = ShouldDelete(rule, category),
                           !.actions_taken =
                               IF rule.kind = "rule"
                               THEN <<Tag("matched_rule", rule.name)>>
                               ELSE <<>>]
         IN  /\ rules' = fm.rules
             /\ last_loaded' = fm.last_loaded
             /\ \/ \* decrypt_credentials raises: ConnectorNotFoundError
                   /\ act' = AcquireFailed(started, 0)
                   /\ UNCHANGED conns
                \/ \E o \in ConnectOutcomes :
                   /\ conns' = Acquire(conns, o)
                   /\ act' = IF o = "ok"
                             THEN [started EXCEPT !.pc = "act",
                                                  !.conn = GetConnector(conns)]
                             ELSE AcquireFailed(started, GetConnector(conns))

\* A worker runs apply_classification_action(email_id, category, ...)
ApplyClassificationAction(email_id, category) ==
    /\ MayStart
    /\ ncalls' = ncalls + 1
    /\ ActEnter("direct", email_id, category)
    /\ bc' = IdleBc /\ bm' = IdleBm /\ lb' = IdleLb
    /\ UNCHANGED <<ruleFile, probe, store, dbFaulty, noAccount, bm2, bc2>>

\* The folder and the tag are recorded whatever move_email returned.
AfterMoveUnchecked(a, success) ==
    [a EXCEPT !.pending = SetAttr(@, "archived_folder", a.target_folder),
              !.actions_taken = Append(@, Tag("moved_to", a.target_folder))]

\* Lines 189-200: what the result of move_email does to the session row
\* and the action tags
AfterMove(a, success) ==
    IF success
    THEN [a EXCEPT !.pending = SetAttr(@, "archived_folder", a.target_folder),
                   !.actions_taken = Append(@, Tag("moved_to", a.target_folder))]
    ELSE a

\* is_deleted is set whatever delete_email returned.
AfterDeleteUnchecked(a, success) ==
    [a EXCEPT !.pending = SetAttr(@, "is_deleted", TRUE),
              !.actions_taken = Append(@, Tag("deleted", None))]

\* Lines 205-214: the same for delete_email
AfterDelete(a, success) ==
    IF success
    THEN [a EXCEPT !.pending = SetAttr(@, "is_deleted", TRUE),
                   !.actions_taken = Append(@, Tag("deleted", None))]
    ELSE a

\* _log_action: db.add(log); db.commit() inside try/except.  The commit
\* flushes the pending writes of the session; a failing commit is logged
\* and swallowed, and the writes stay pending.
LogActionStore(st, id, w, ok) == IF ok THEN CommitRow(st, id, w) ELSE st

LogActionPending(w, ok) == IF ok THEN NoWrites ELSE w

\* The move is made whenever a folder is set.
DoMoveWheneverFolder(a) == a.target_folder # None

\* Line 186: if target_folder and not should_delete
DoMove(a) == a.target_folder # None /\ ~a.should_delete

\* Lines 186-218: the move block, the delete block and the finally block
ActRun ==
    /\ act.pc = "act"
    /\ LET id == act.email_id
           outs == ConnectorOutcomes(AccountOf(id))
           doMove == DoMove(act)
       IN  \E mo \in (IF doMove THEN outs ELSE {"skip"}) :
           \E do \in (IF mo # "raise" /\ act.should_delete THEN outs ELSE {"skip"}) :
           \E logOk \in CommitOutcomes :
             LET a1 == IF mo = "skip" THEN act
                       ELSE [act EXCEPT !.calls = Append(@,
                               [op |-> "move", folder |-> act.target_folder,
                                ret |-> mo])]
                 a2 == IF mo \in {"true", "false"}
                       THEN AfterMove(a1, mo = "true") ELSE a1
                 st2 == IF mo \in {"true", "false"}
                        THEN LogActionStore(store, id, a2.pending, logOk) ELSE store
                 a3 == IF mo \in {"true", "false"}
                       THEN [a2 EXCEPT !.pending = LogActionPending(@, logOk)]
                       ELSE a2
                 a4 == IF do = "skip" THEN a3
                       ELSE [a3 EXCEPT !.calls = Append(@,
                               [op |-> "delete", permanent |-> FALSE,
                                ret |-> do])]
                 a5 == IF do \in {"true", "false"}
                       THEN AfterDelete(a4, do = "true") ELSE a4
                 st5 == IF do \in {"true", "false"}
                        THEN LogActionStore(st2, id, a5.pending, logOk) ELSE st2
                 a6 == IF do \in {"true", "false"}
                       THEN [a5 EXCEPT !.pending = LogActionPending(@, logOk)]
                       ELSE a5
                 raised == mo = "raise" \/ do = "raise"
             IN  /\ store' = st5
                 /\ conns' = Disconnect(conns, act.conn, raised)
                 /\ act' = IF raised
                           THEN [a6 EXCEPT !.pc = "done", !.result = "error"]
                           ELSE [a6 EXCEPT !.pc = "commit"]
    /\ UNCHANGED <<ruleFile, rules, last_loaded, probe, bc, bm, lb, ncalls,
                   dbFaulty, noAccount, bm2, bc2>>

\* Lines 220-242: status = CLASSIFIED, commit, return; a failing commit
\* reaches the outer except
ActCommit ==
    /\ act.pc = "commit"
    /\ \E ok \in CommitOutcomes :
          LET w == SetAttr(act.pending, "status", "CLASSIFIED")
          IN  IF ok
              THEN /\ store' = CommitRow(store, act.email_id, w)
                   /\ act' = [act EXCEPT !.pc = "done", !.pending = NoWrites,
                                         !.result = "success"]
              ELSE /\ store' = store
                   /\ act' = [act EXCEPT !.pc = "done", !.pending = NoWrites,
                                         !.result = "error"]
    /\ UNCHANGED <<ruleFile, rules, last_loaded, probe, conns, bc, bm, lb,
                   ncalls, dbFaulty, noAccount, bm2, bc2>>

----------------------------------------------------------------------------
(* bulk_classify_pending_emails and classify_single_email *)

\* What classifier.classify_email can return (it catches every exception):
\* a parsed LLM answer, or the UNKNOWN/0 error result
ClassifierResults ==
    { [category |-> "SPAM", confidence |-> 90, reason |-> [kind |-> "llm"]],
      [category |-> "UNKNOWN", confidence |-> 0, reason |-> [kind |-> "error"]] }

RuleConfidence == 95

\* The reason of a rule match does not name the rule.
ClassificationWithoutRuleName(rule, llm) ==
    IF rule.kind = "rule"
    THEN [category |-> rule.category, confidence |-> RuleConfidence,
          reason |-> [kind |-> "rule", name |-> None]]
    ELSE llm

\* Lines 521-541: rules first, the classifier when no rule matched
Classification(rule, llm) ==
    IF rule.kind = "rule"
    THEN [category |-> rule.category, confidence |-> RuleConfidence,
          reason |-> [kind |-> "rule", name |-> rule.name]]
    ELSE llm

\* Lines 543-547: the attribute writes on the session row
ClassificationWrites(c) ==
    SetAttr(SetAttr(SetAttr(SetAttr(NoWrites,
        "category", c.category),
        "classification_confidence", c.confidence),
        "classification_reason", c.reason),
        "status", "PROCESSING")

\* The commit of line 549 is left out.
SkipCommitClassification(st, id, w) == st

\* Line 549: await db.commit(), before apply_classification_action
CommitClassification(st, id, w) == CommitRow(st, id, w)

Min(a, b) == IF a < b THEN a ELSE b

\* The query has no WHERE clause: any limit of the rows.
AnySelections(st, limit) ==
    LET n == Min(limit, Cardinality(EmailIds))
    IN  {q \in SeqsUpTo(EmailIds, n) : Len(q) = n /\ IsInjective(q)}

\* select(Email).where(status == PENDING).limit(limit): no ORDER BY, so
\* any limit of the pending rows, in any order
PendingSelections(st, limit) ==
    LET pend == {id \in EmailIds : st[id].status = "PENDING"}
        n == Min(limit, Cardinality(pend))
    IN  {q \in SeqsUpTo(pend, n) : Len(q) = n /\ IsInjective(q)}

\* A worker runs classify_pending_emails(limit): lines 487-508
ClassifyPending(limit) ==
    /\ MayStart
    /\ ncalls' = ncalls + 1
    /\ \E sel \in PendingSelections(store, limit), ok \in QueryOutcomes :
          bc' = IF ~ok
                THEN [IdleBc EXCEPT !.pc = "done", !.kind = "bulk",
                                    !.limit = limit, !.result = "error"]
                ELSE IF sel = <<>>
                THEN [IdleBc EXCEPT !.pc = "done", !.kind = "bulk",
                                    !.limit = limit, !.result = "success"]
                ELSE [IdleBc EXCEPT !.pc = "loop", !.kind = "bulk",
                                    !.limit = limit, !.emails = sel, !.i = 1]
    /\ act' = IdleAct /\ bm' = IdleBm /\ lb' = IdleLb
    /\ UNCHANGED <<ruleFile, rules, last_loaded, probe, store, conns, dbFaulty, noAccount, bm2, bc2>>

\* A worker runs classify_single_email(email_id): db.get, lines 84-89
ClassifySingleEmail(email_id) ==
    /\ MayStart
    /\ ncalls' = ncalls + 1
    /\ bc' = IF email_id \in EmailIds
             THEN [IdleBc EXCEPT !.pc = "loop", !.kind = "single",
                                 !.emails = <<email_id>>, !.i = 1]
             ELSE [IdleBc EXCEPT !.pc = "done", !.kind = "single",
                                 !.result = "error"]
    /\ act' = IdleAct /\ bm' = IdleBm /\ lb' = IdleLb
    /\ UNCHANGED <<ruleFile, rules, last_loaded, probe, store, conns, dbFaulty, noAccount, bm2, bc2>>

\* The frame after the loop body of email i ended
BcNext(f) ==
    IF f.kind = "bulk" /\ f.i < Len(f.emails)
    THEN [f EXCEPT !.pc = "loop", !.i = @ + 1]
    ELSE [f EXCEPT !.pc = "done", !.result = "success"]

\* Lines 510-549 (bulk) and 91-129 (single): classify the email, write
\* the classification and status PROCESSING, commit.  A failing commit
\* raises: the bulk loop marks the email ERROR and commits again
\* (lines 561-567), the single task returns an error (lines 153-159).
BcClassifyFrom(results) ==
    /\ bc.pc = "loop"
    /\ LET id == bc.emails[bc.i]
           fm == FindMatchingRule(rules, last_loaded, ruleFile, EmailDataOf(id))
       IN  /\ rules' = fm.rules
           /\ last_loaded' = fm.last_loaded
           /\ \E llm \in (IF fm.rule.kind = "rule" THEN {NoneV}
                          ELSE results) :
              \E ok \in CommitOutcomes, ok2 \in CommitOutcomes :
                LET c == Classification(fm.rule, llm)
                    w == ClassificationWrites(c)
                    f1 == [bc EXCEPT
                             !.processed = IF bc.kind = "bulk" THEN @ + 1 ELSE @,
                             !.category = c.category,
                             !.confidence = c.confidence,
                             !.reason = c.reason,
                             !.classifier_calls =
                                 IF fm.rule.kind = "rule" THEN @ ELSE @ + 1]
                IN  IF ok
                    THEN /\ store' = CommitClassification(store, id, w)
                         /\ bc' = [f1 EXCEPT !.pc = "dispatch"]
                    ELSE IF bc.kind = "single"
                    THEN /\ store' = store
                         /\ bc' = [f1 EXCEPT !.pc = "done", !.result = "error"]
                    ELSE IF ok2
                    THEN /\ store' = CommitRow(store, id,
                                               SetAttr(w, "status", "ERROR"))
                         /\ bc' = BcNext([f1 EXCEPT !.errors = @ + 1])
                    ELSE /\ store' = store
                         /\ bc' = [f1 EXCEPT !.errors = @ + 1, !.pc = "done",
                                             !.result = "error"]
    /\ UNCHANGED <<ruleFile, probe, conns, act, bm, lb, ncalls, dbFaulty, noAccount, bm2, bc2>>

BcClassify == BcClassifyFrom(ClassifierResults)

\* Lines 552-557 (bulk) and 132-137 (single): the call of
\* apply_classification_action for the email just classified
BcDispatch ==
    /\ bc.pc = "dispatch"
    /\ act.pc = "idle"
    /\ ActEnter("bc", bc.emails[bc.i], bc.category)
    /\ bc' = [bc EXCEPT !.dispatched = Append(@, bc.emails[bc.i])]
    /\ UNCHANGED <<ruleFile, probe, store, bm, lb, ncalls, dbFaulty, noAccount, bm2, bc2>>

\* classified counts only the dispatches that returned success.
AfterDispatchCountingSuccess(f, result) ==
    IF f.kind = "bulk" /\ result = "success"
    THEN [f EXCEPT !.classified = @ + 1] ELSE f

\* Line 559: classified += 1.  apply_classification_action never raises,
\* and the dict it returns is not looked at.
AfterDispatch(f, result) ==
    IF f.kind = "bulk" THEN [f EXCEPT !.classified = @ + 1] ELSE f

\* Lines 552-559 (bulk) and 132-147 (single): the dispatcher returned
BcAfterDispatch ==
    /\ bc.pc = "dispatch"
    /\ act.pc = "done"
    /\ bc' = BcNext(AfterDispatch(bc, act.result))
    /\ act' = IdleAct
    /\ UNCHANGED <<ruleFile, rules, last_loaded, probe, store, conns, bm, lb,
                   ncalls, dbFaulty, noAccount, bm2, bc2>>

----------------------------------------------------------------------------
(* bulk_move_emails *)

BulkFolder == "Archive"

Failure(email_id, error) == [email_id |-> email_id, error |-> error]

BatchInputs == SeqsUpTo(EmailIds \cup {MissingId}, MaxBatch)

\* The status is taken from the succeeded list alone.
BulkStatusIgnoringFailures(succeeded, failed) ==
    IF succeeded # <<>> THEN "success" ELSE "error"

\* Lines 348-354: overall status
BulkStatus(succeeded, failed) ==
    IF failed = <<>> THEN "success"
    ELSE IF succeeded # <<>> THEN "partial"
    ELSE "error"

\* The frame after the loop body of item i ended
BmNext(f) ==
    IF f.i < Len(f.email_ids)
    THEN [f EXCEPT !.pc = "item", !.i = @ + 1, !.conn = 0]
    ELSE [f EXCEPT !.pc = "commit", !.conn = 0]

\* Lines 291-299: the frame on entry of the loop
BmStart(email_ids) ==
    [IdleBm EXCEPT !.pc = IF email_ids = <<>> THEN "commit" ELSE "item",
                   !.email_ids = email_ids, !.folder = BulkFolder, !.i = 1]

\* A worker runs bulk_move_emails(email_ids, folder)
BulkMoveEmails(email_ids) ==
    /\ MayStart
    /\ ncalls' = ncalls + 1
    /\ bm' = BmStart(email_ids)
    /\ act' = IdleAct /\ bc' = IdleBc /\ lb' = IdleLb
    /\ UNCHANGED <<ruleFile, rules, last_loaded, probe, store, conns, dbFaulty, noAccount, bm2, bc2>>

\* Lines 302-318: load the email and the account of item i, create the
\* connector and connect it
BmItemStep(f, g) ==
    /\ f.pc = "item"
    /\ LET id == f.email_ids[f.i]
       IN  IF id \notin EmailIds
           THEN /\ g = BmNext([f EXCEPT !.failed =
                                   Append(@, Failure(id, "Email not found"))])
                /\ UNCHANGED conns
           ELSE IF AccountOf(id) = None
           THEN /\ g = BmNext([f EXCEPT !.failed =
                                   Append(@, Failure(id, "Account not found"))])
                /\ UNCHANGED conns
           ELSE \/ \* _get_connector_for_account raises
                   /\ g = BmNext([f EXCEPT !.failed =
                                      Append(@, Failure(id, "exception"))])
                   /\ UNCHANGED conns
                \/ \E o \in ConnectOutcomes :
                   /\ conns' = Acquire(conns, o)
                   /\ g = IF o = "ok"
                            THEN [f EXCEPT !.pc = "move",
                                            !.conn = GetConnector(conns)]
                            ELSE BmNext([f EXCEPT !.failed =
                                           Append(@, Failure(id, "exception"))])

BmItem ==
    /\ BmItemStep(bm, bm')
    /\ UNCHANGED <<ruleFile, rules, last_loaded, probe, store, act, bc, lb,
                   ncalls, dbFaulty, noAccount, bm2, bc2>>

\* The commit writes back every row as the session first read it, with
\* the pending writes on top.
LogActionWholeTable(st, pend, ok) ==
    IF ok
    THEN [id \in EmailIds |->
            CommitRow([x \in EmailIds |-> NewRow], id, pend[id])[id]]
    ELSE st

\* _log_action called with the session of the batch: its commit flushes
\* the pending writes of every row of the session
LogActionAll(st, pend, ok) ==
    IF ok
    THEN [id \in EmailIds |-> CommitRow(st, id, pend[id])[id]]
    ELSE st

\* Lines 320-343: move, record the outcome, disconnect; an exception is
\* recorded as a failure of the item
BmMoveStep(f, g) ==
    /\ f.pc = "move"
    /\ LET id == f.email_ids[f.i]
       IN  \E mo \in ConnectorOutcomes(AccountOf(id)) :
           \E logOk \in CommitOutcomes :
             LET pend == IF mo = "true"
                         THEN [f.pending EXCEPT ![id] =
                                 SetAttr(SetAttr(@, "archived_folder", f.folder),
                                         "status", "ARCHIVED")]
                         ELSE f.pending
             IN  /\ store' = IF mo = "raise" THEN store
                             ELSE LogActionAll(store, pend, logOk)
                 /\ conns' = Disconnect(conns, f.conn, mo = "raise")
                 /\ g = BmNext([f EXCEPT
                             !.pending = IF mo # "raise" /\ logOk
                                         THEN [x \in EmailIds |-> NoWrites]
                                         ELSE pend,
                             !.succeeded = IF mo = "true" THEN Append(@, id) ELSE @,
                             !.failed =
                                 IF mo = "false"
                                 THEN Append(@, Failure(id, "Move operation failed"))
                                 ELSE IF mo = "raise"
                                 THEN Append(@, Failure(id, "exception"))
                                 ELSE @])

BmMove ==
    /\ BmMoveStep(bm, bm')
    /\ UNCHANGED <<ruleFile, rules, last_loaded, probe, act, bc, lb, ncalls,
                   dbFaulty, noAccount, bm2, bc2>>

\* Lines 345-373: the commit after the loop, and the result
BmCommitStep(f, g) ==
    /\ f.pc = "commit"
    /\ \E ok \in CommitOutcomes :
          IF ok
          THEN /\ store' = [id \in EmailIds |->
                              CommitRow(store, id, f.pending[id])[id]]
               /\ g = [f EXCEPT !.pc = "done",
                                   !.pending = [x \in EmailIds |-> NoWrites],
                                   !.result = BulkStatus(f.succeeded, f.failed),
                                   !.total = Len(f.email_ids)]
          ELSE /\ store' = store
               /\ g = [f EXCEPT !.pc = "done",
                                   !.pending = [x \in EmailIds |-> NoWrites],
                                   !.result = "error",
                                   !.total = Len(f.email_ids)]

BmCommit ==
    /\ BmCommitStep(bm, bm')
    /\ UNCHANGED <<ruleFile, rules, last_loaded, probe, conns, act, bc, lb,
                   ncalls, dbFaulty, noAccount, bm2, bc2>>

----------------------------------------------------------------------------
(* apply_label *)

LabelInput == "Important"

LabelInputs == {LabelInput, "Work", "Later"}

\* Every account type is taken for a Gmail account.
AnyAccountType(account_type) == TRUE

\* Line 413: account.account_type != AccountType.GMAIL, negated
IsGmail(account_type) == account_type = "GMAIL"

\* A worker runs apply_label(email_id, label): lines 398-426
ApplyLabel(email_id, label) ==
    /\ MayStart
    /\ ncalls' = ncalls + 1
    /\ LET f == [IdleLb EXCEPT !.email_id = email_id, !.label = label]
       IN  IF email_id \notin EmailIds
           THEN /\ lb' = [f EXCEPT !.pc = "done", !.result = "error",
                                   !.error = "Email not found"]
                /\ UNCHANGED conns
           ELSE IF AccountOf(email_id) = None
           THEN /\ lb' = [f EXCEPT !.pc = "done", !.result = "error",
                                   !.error = "Account not found"]
                /\ UNCHANGED conns
           ELSE IF ~IsGmail(AccountOf(email_id))
           THEN /\ lb' = [f EXCEPT !.pc = "done", !.result = "error",
                                   !.error = "Labels are only supported for Gmail accounts"]
                /\ UNCHANGED conns
           ELSE \/ \* _get_connector_for_account raises
                   /\ lb' = [f EXCEPT !.pc = "done", !.result = "error",
                                      !.error = "exception"]
                   /\ UNCHANGED conns
                \/ \E o \in ConnectOutcomes :
                   /\ conns' = Acquire(conns, o)
                   /\ lb' = IF o = "ok"
                            THEN [f EXCEPT !.pc = "apply",
                                           !.conn = GetConnector(conns)]
                            ELSE [f EXCEPT !.pc = "done", !.result = "error",
                                           !.conn = GetConnector(conns),
                                           !.error = "exception"]
    /\ act' = IdleAct /\ bc' = IdleBc /\ bm' = IdleBm
    /\ UNCHANGED <<ruleFile, rules, last_loaded, probe, store, dbFaulty, noAccount, bm2, bc2>>

\* Lines 430-456: the label call, when the connector has the method, and
\* the finally block.  The log entry and the commits write no Email column.
LbApply ==
    /\ lb.pc = "apply"
    /\ IF HasApplyLabel(AccountOf(lb.email_id))
       THEN \E o \in ConnectorOutcomes(AccountOf(lb.email_id)) :
            \E ok \in CommitOutcomes :
               /\ lb' = [lb EXCEPT
                           !.pc = "done",
                           !.calls = @ + 1,
                           !.result = IF o = "true" /\ ok THEN "success" ELSE "error",
                           !.error = IF o = "true" /\ ok THEN None
                                     ELSE IF o = "false" THEN "Failed to apply label"
                                     ELSE "exception"]
               /\ conns' = Disconnect(conns, lb.conn, o = "raise" \/ ~ok)
       ELSE /\ lb' = [lb EXCEPT
                        !.pc = "done", !.result = "error",
                        !.error = "Gmail connector does not support label operations"]
            /\ conns' = Disconnect(conns, lb.conn, FALSE)
    /\ UNCHANGED <<ruleFile, rules, last_loaded, probe, store, act, bc, bm,
                   ncalls, dbFaulty, noAccount, bm2, bc2>>

----------------------------------------------------------------------------
(* Direct calls of the rule engine *)

NoProbe == [op |-> "none"]

\* rules_parser.load_rules(force_reload)
LoadRules(force_reload) ==
    /\ TopIdle
    /\ LET r == LoadRulesResult(rules, last_loaded, ruleFile, force_reload)
       IN  /\ rules' = r.rules
           /\ last_loaded' = r.last_loaded
    /\ probe' = [op |-> "load_rules", force_reload |-> force_reload,
                 had_rules |-> rules # <<>>]
    /\ UNCHANGED <<ruleFile, store, conns, act, bc, bm, lb, ncalls, dbFaulty, noAccount, bm2, bc2>>

\* rules_parser.find_matching_rule(email_data)
FindRule(email_data) ==
    /\ TopIdle
    /\ LET fm == FindMatchingRule(rules, last_loaded, ruleFile, email_data)
       IN  /\ rules' = fm.rules
           /\ last_loaded' = fm.last_loaded
           /\ probe' = [op |-> "find_matching_rule", email_data |-> email_data,
                        result |-> fm.rule]
    /\ UNCHANGED <<ruleFile, store, conns, act, bc, bm, lb, ncalls, dbFaulty, noAccount, bm2, bc2>>

\* rule.matches(email_data) for a loaded rule
RuleMatches(i, email_data) ==
    /\ TopIdle
    /\ i \in 1..Len(rules)
    /\ probe' = [op |-> "matches", rule |-> rules[i], email_data |-> email_data,
                 result |-> Matches(rules[i], email_data)]
    /\ UNCHANGED <<ruleFile, rules, last_loaded, store, conns, act, bc, bm, lb,
                   ncalls, dbFaulty, noAccount, bm2, bc2>>

----------------------------------------------------------------------------
(* Specifications *)

PipeInit ==
    /\ store = [id \in EmailIds |-> NewRow]
    /\ conns = <<>>
    /\ act = IdleAct
    /\ bc = IdleBc
    /\ bm = IdleBm
    /\ lb = IdleLb
    /\ ncalls = 0

\* The pipeline with the rule file of the deployment and a reliable store
Init ==
    /\ ruleFile = PipelineRuleFile
    /\ rules = <<>>
    /\ last_loaded = FALSE
    /\ probe = NoProbe
    /\ PipeInit
    /\ dbFaulty = FALSE
    /\ noAccount = {}
    /\ bm2 = IdleBm
    /\ bc2 = IdleBc

DirectCategories == EmailCategory

Next ==
    \/ \E id \in EmailIds \cup {MissingId}, c \in DirectCategories :
          ApplyClassificationAction(id, c)
    \/ ActRun
    \/ ActCommit
    \/ \E limit \in 1..NEmails : ClassifyPending(limit)
    \/ \E id \in EmailIds \cup {MissingId} : ClassifySingleEmail(id)
    \/ BcClassify
    \/ BcDispatch
    \/ BcAfterDispatch
    \/ \E ids \in BatchInputs : BulkMoveEmails(ids)
    \/ BmItem
    \/ BmMove
    \/ BmCommit
    \/ \E id \in EmailIds \cup {MissingId} : ApplyLabel(id, LabelInput)
    \/ LbApply

Spec == Init /\ [][Next]_vars

\* The action dispatcher alone: direct calls of apply_classification_action
NextDispatch ==
    \/ \E id \in EmailIds \cup {MissingId}, c \in DirectCategories :
          ApplyClassificationAction(id, c)
    \/ ActRun
    \/ ActCommit

SpecDispatch == Init /\ [][NextDispatch]_vars

\* The classification tasks, with the dispatcher calls they make
NextClassify ==
    \/ \E limit \in 1..NEmails : ClassifyPending(limit)
    \/ \E id \in EmailIds \cup {MissingId} : ClassifySingleEmail(id)
    \/ BcClassify
    \/ BcDispatch
    \/ BcAfterDispatch
    \/ ActRun
    \/ ActCommit

SpecClassify == Init /\ [][NextClassify]_vars

\* bulk_move_emails alone
NextMove ==
    \/ \E ids \in BatchInputs : BulkMoveEmails(ids)
    \/ BmItem
    \/ BmMove
    \/ BmCommit

SpecMove == Init /\ [][NextMove]_vars

\* The rule engine alone, on every rule file of the input set
InitRules ==
    /\ ruleFile \in RuleFiles
    /\ rules = <<>>
    /\ last_loaded = FALSE
    /\ probe = NoProbe
    /\ PipeInit
    /\ dbFaulty = FALSE
    /\ noAccount = {}
    /\ bm2 = IdleBm
    /\ bc2 = IdleBc

NextRules ==
    \/ \E force \in BOOLEAN : LoadRules(force)
    \/ \E e \in ProbeEmails : FindRule(e)
    \/ \E i \in 1..MaxRules, e \in ProbeEmails : RuleMatches(i, e)

SpecRules == InitRules /\ [][NextRules]_vars

\* The same pipeline with a store whose commits may fail
InitFaulty ==
    /\ ruleFile = PipelineRuleFile
    /\ rules = <<>>
    /\ last_loaded = FALSE
    /\ probe = NoProbe
    /\ PipeInit
    /\ dbFaulty = TRUE
    /\ noAccount = {}
    /\ bm2 = IdleBm
    /\ bc2 = IdleBc

SpecFaulty == InitFaulty /\ [][Next]_vars

\* classify_pending alone on that store
NextBulk ==
    \/ \E limit \in 1..NEmails : ClassifyPending(limit)
    \/ BcClassify
    \/ BcDispatch
    \/ BcAfterDispatch
    \/ ActRun
    \/ ActCommit

SpecBulkFaulty == InitFaulty /\ [][NextBulk]_vars

\* Two classify_pending tasks on two workers: the beat entry of
\* celery_app.py 44-48 and the task sync_account sends at
\* email_sync.py 289.  While the first invocation is in its loop the second
\* one executes its query (lines 496-502) on the committed rows; nothing
\* locks or marks the rows it selects.
ClassifyPendingConcurrently(limit) ==
    /\ bc.kind = "bulk" /\ bc.pc \in {"loop", "dispatch"}
    /\ bc2.pc = "idle"
    /\ ncalls < MaxCalls
    /\ ncalls' = ncalls + 1
    /\ \E sel \in PendingSelections(store, limit) :
          bc2' = IF sel = <<>>
                 THEN [IdleBc EXCEPT !.pc = "done", !.kind = "bulk",
                                     !.limit = limit, !.result = "success"]
                 ELSE [IdleBc EXCEPT !.pc = "loop", !.kind = "bulk",
                                     !.limit = limit, !.emails = sel, !.i = 1]
    /\ UNCHANGED <<ruleFile, rules, last_loaded, probe, store, conns, act, bc,
                   bm, lb, dbFaulty, noAccount, bm2>>

\* The worker of the second invocation goes on with its loop once the first
\* invocation has returned: from here on bc is the frame of the second
\* invocation and bc2 keeps the frame the first one returned with.
SecondWorkerRuns ==
    /\ bc.pc = "done"
    /\ bc2.pc = "loop"
    /\ Returned(act)
    /\ bc' = bc2
    /\ bc2' = bc
    /\ act' = IdleAct
    /\ UNCHANGED <<ruleFile, rules, last_loaded, probe, store, conns, bm, lb,
                   ncalls, dbFaulty, noAccount, bm2>>

NextRace ==
    \/ \E limit \in 1..NEmails : ClassifyPending(limit)
    \/ \E limit \in 1..NEmails : ClassifyPendingConcurrently(limit)
    \/ SecondWorkerRuns
    \/ BcClassify
    \/ BcDispatch
    \/ BcAfterDispatch
    \/ ActRun
    \/ ActCommit

SpecRace == Init /\ [][NextRace]_vars

\* Direct dispatcher calls on a store in which the accounts of some emails
\* have been deleted
InitOrphan ==
    /\ ruleFile = PipelineRuleFile
    /\ rules = <<>>
    /\ last_loaded = FALSE
    /\ probe = NoProbe
    /\ PipeInit
    /\ dbFaulty = FALSE
    /\ noAccount \in SUBSET EmailIds
    /\ bm2 = IdleBm
    /\ bc2 = IdleBc

OrphanCategories == {"SPAM", "INVOICE"}

NextOrphan ==
    \/ \E id \in EmailIds \cup {MissingId}, c \in OrphanCategories :
          ApplyClassificationAction(id, c)
    \/ ActRun
    \/ ActCommit

SpecOrphan == InitOrphan /\ [][NextOrphan]_vars

\* apply_label alone, on a store in which some accounts may be gone
NextLabel ==
    \/ \E id \in EmailIds \cup {MissingId}, label \in LabelInputs :
          ApplyLabel(id, label)
    \/ LbApply

SpecLabel == InitOrphan /\ [][NextLabel]_vars

----------------------------------------------------------------------------
(* Two bulk_move_emails invocations run by two workers at the same time *)

Ids(q) == {q[k] : k \in 1..Len(q)}

\* The first worker takes a batch that shares no id with the other one's
ConcurrentMove1(email_ids) ==
    /\ bm.pc = "idle"
    /\ Ids(email_ids) \cap Ids(bm2.email_ids) = {}
    /\ ncalls < MaxCalls
    /\ ncalls' = ncalls + 1
    /\ bm' = BmStart(email_ids)
    /\ UNCHANGED <<ruleFile, rules, last_loaded, probe, store, conns, act, bc,
                   lb, dbFaulty, noAccount, bm2, bc2>>

\* The second worker does, the first one having started
ConcurrentMove2(email_ids) ==
    /\ bm2.pc = "idle"
    /\ bm.pc # "idle"
    /\ Ids(email_ids) \cap Ids(bm.email_ids) = {}
    /\ ncalls < MaxCalls
    /\ ncalls' = ncalls + 1
    /\ bm2' = BmStart(email_ids)
    /\ UNCHANGED <<ruleFile, rules, last_loaded, probe, store, conns, act, bc,
                   lb, dbFaulty, noAccount, bm, bc2>>

Bm2Item ==
    /\ BmItemStep(bm2, bm2')
    /\ UNCHANGED <<ruleFile, rules, last_loaded, probe, store, act, bc, lb,
                   ncalls, dbFaulty, noAccount, bm, bc2>>

Bm2Move ==
    /\ BmMoveStep(bm2, bm2')
    /\ UNCHANGED <<ruleFile, rules, last_loaded, probe, act, bc, lb, ncalls,
                   dbFaulty, noAccount, bm, bc2>>

Bm2Commit ==
    /\ BmCommitStep(bm2, bm2')
    /\ UNCHANGED <<ruleFile, rules, last_loaded, probe, conns, act, bc, lb,
                   ncalls, dbFaulty, noAccount, bm, bc2>>

\* Non-empty batches without a repeated id
ConcurrentBatches == {q \in BatchInputs : q # <<>> /\ IsInjective(q)}

NextMove2 ==
    \/ \E ids \in ConcurrentBatches : ConcurrentMove1(ids)
    \/ \E ids \in ConcurrentBatches : ConcurrentMove2(ids)
    \/ BmItem
    \/ BmMove
    \/ BmCommit
    \/ Bm2Item
    \/ Bm2Move
    \/ Bm2Commit

SpecMove2 == Init /\ [][NextMove2]_vars

\* Direct dispatcher calls with a rule file whose first rule sets both a
\* folder and auto_delete
ConflictRuleFile ==
    [kind |-> "ok",
     entries |->
       << Entry("Purge invoices", 50,
                << <<"subject_contains", Str(<<"i","n","v">>)>> >>,
                Str(<<"s","p","a","m">>), "Trash/Old", TRUE),
          Entry("Keep greetings", 10,
                << <<"subject_contains", Str(<<"h","i">>)>> >>,
                Str(<<"p","e","r","s","o","n","a","l">>), "Friends", FALSE) >>]

InitConflict ==
    /\ ruleFile = ConflictRuleFile
    /\ rules = <<>>
    /\ last_loaded = FALSE
    /\ probe = NoProbe
    /\ PipeInit
    /\ dbFaulty = FALSE
    /\ noAccount = {}
    /\ bm2 = IdleBm
    /\ bc2 = IdleBc

SpecConflict == InitConflict /\ [][NextOrphan]_vars

----------------------------------------------------------------------------
(* EmailClassifier (worker/classifiers/ollama_classifier.py) *)

\* Values of a JSON member: a missing key, null, an integer, a float (its
\* integer part), a string of digits (its value), any other string
Absent == [kind |-> "absent"]
Num(n) == [kind |-> "int", n |-> n]
Float(n) == [kind |-> "float", whole |-> n]
NumStr(n) == [kind |-> "numstr", n |-> n]

\* A response text is a sequence of tokens: a brace, a blank, a piece of
\* other text, or the text of the members of a JSON object.
LBrace == [t |-> "{"]
RBrace == [t |-> "}"]
Blank == [t |-> " "]
Text == [t |-> "text"]
Members(category, confidence, reason) ==
    [t |-> "members", category |-> category, confidence |-> confidence,
     reason |-> reason]

\* response.strip()
RECURSIVE StripBlank(_)
StripBlank(toks) ==
    IF toks = <<>> THEN toks
    ELSE IF Head(toks) = Blank THEN StripBlank(Tail(toks))
    ELSE IF toks[Len(toks)] = Blank
         THEN StripBlank(SubSeq(toks, 1, Len(toks) - 1))
    ELSE toks

\* response.find('{'), counted from 1: 0 is Python's -1
Find(toks, c) ==
    IF \E i \in 1..Len(toks) : toks[i] = c
    THEN CHOOSE i \in 1..Len(toks) :
            toks[i] = c /\ \A j \in 1..(i - 1) : toks[j] # c
    ELSE 0

\* response.rfind('}') + 1, as the last position of the slice: 0 is
\* Python's end == 0
RFind(toks, c) ==
    IF \E i \in 1..Len(toks) : toks[i] = c
    THEN CHOOSE i \in 1..Len(toks) :
            toks[i] = c /\ \A j \in (i + 1)..Len(toks) : toks[j] # c
    ELSE 0

\* json.loads(json_str): the dict, or "raise" (JSONDecodeError)
JsonLoads(toks) ==
    IF toks = <<LBrace, RBrace>>
    THEN [kind |-> "dict", data |-> Members(Absent, Absent, Absent)]
    ELSE IF Len(toks) = 3 /\ toks[1] = LBrace /\ toks[3] = RBrace
                          /\ toks[2].t = "members"
    THEN [kind |-> "dict", data |-> toks[2]]
    ELSE [kind |-> "raise"]

\* category_mapping.get(category_str, EmailCategory.UNKNOWN)
CategoryMapping(category_str) ==
    IF \E c \in EmailCategory \ {"UNKNOWN"} : Lower(CategoryNames[c]) = category_str
    THEN CHOOSE c \in EmailCategory \ {"UNKNOWN"} :
            Lower(CategoryNames[c]) = category_str
    ELSE "UNKNOWN"

\* The confidence is taken as the model gave it.
UnclampedConfidence(n) == n

\* min(100, max(0, n))
ClampConfidence(n) == IF n < 0 THEN 0 ELSE IF n > 100 THEN 100 ELSE n

ClassifierResult(category, confidence, reason) ==
    [kind |-> "ok", category |-> category, confidence |-> confidence,
     reason |-> reason]

Raise(error) == [kind |-> "raise", error |-> error]

\* EmailClassifier._fallback_classification
FallbackClassification ==
    ClassifierResult("UNKNOWN", 20, [kind |-> "fallback"])

\* An unparseable response raises out of the parser.
ParseFailureRaises(e) == Raise(e)

\* The except branch of _parse_llm_response
ParseFailure(e) == FallbackClassification

\* EmailClassifier._parse_llm_response(response)
ParseLlmResponse(response) ==
    IF response.kind # "str"
    THEN Raise("TypeError")  \* None.strip() fails, None[:200] in the handler too
    ELSE
    LET toks == StripBlank(response.s)
        start == Find(toks, LBrace)
        end == RFind(toks, RBrace)
        loaded == JsonLoads(SubSeq(toks, start, end))
        data == loaded.data
    IN  IF start = 0 \/ end = 0 THEN ParseFailure("No JSON found in response")
        ELSE IF loaded.kind = "raise" THEN ParseFailure("JSONDecodeError")
        ELSE IF data.category.kind \notin {"absent", "str"}
        THEN ParseFailure("AttributeError")
        ELSE IF data.confidence.kind \in {"none", "str"}
        THEN ParseFailure("ValueError")
        ELSE ClassifierResult(
                 CategoryMapping(IF data.category.kind = "absent"
                                 THEN <<"u","n","k","n","o","w","n">>
                                 ELSE Lower(data.category.s)),
                 ClampConfidence(CASE data.confidence.kind = "absent" -> 50
                                   [] data.confidence.kind = "float" ->
                                          data.confidence.whole
                                   [] OTHER -> data.confidence.n),
                 IF data.reason.kind = "absent" THEN [kind |-> "default"]
                 ELSE [kind |-> "llm", value |-> data.reason])

\* What the HTTP exchange of _call_ollama can do
Transports ==
    {"timeout", "http_error", "bad_body", "no_response_key", "null_response",
     "response"}

\* EmailClassifier._call_ollama(prompt): the response text, or the
\* exception raised
CallOllama(transport, toks) ==
    CASE transport = "timeout" -> Raise("LLM request timeout")
      [] transport = "http_error" -> Raise("LLM HTTP error")
      [] transport = "bad_body" -> Raise("JSONDecodeError")
      [] transport = "no_response_key" -> Str(<<>>)
      [] transport = "null_response" -> NoneV
      [] OTHER -> Str(toks)

\* The exception leaves classify_email.
ErrorPropagates(e) == Raise(e)

\* The except branch of classify_email
ErrorResult(e) == ClassifierResult("UNKNOWN", 0, [kind |-> "error", error |-> e])

\* EmailClassifier.classify_email(...)
ClassifyEmailResult(transport, toks) ==
    LET response == CallOllama(transport, toks)
        classification == ParseLlmResponse(response)
    IN  IF response.kind = "raise" THEN ErrorResult(response.error)
        ELSE IF classification.kind = "raise"
        THEN ErrorResult(classification.error)
        ELSE classification

(* Inputs of the classifier runs *)

MemberSets ==
    {Members(c, n, r) :
        c \in {Absent, NoneV, Str(<<"S","p","a","m">>),
               Str(<<"i","n","v","o","i","c","e">>), Str(<<"u","r","g","e","n","t">>)},
        n \in {Absent, NoneV, Num(80), Num(150), Num(0 - 5), Float(85),
               NumStr(70), Str(<<"h","i","g","h">>)},
        r \in {Absent, Str(<<"r">>)}}

ResponseBodies ==
    {<<LBrace, m, RBrace>> : m \in MemberSets}
    \cup { <<>>, <<Text>>, <<LBrace>>, <<RBrace>>, <<RBrace, LBrace>>,
           <<LBrace, RBrace>>, <<LBrace, Text, RBrace>>,
           <<LBrace, RBrace, Text, LBrace, RBrace>> }

ResponseTexts ==
    {pre \o body \o post :
        pre \in {<<>>, <<Blank, Text>>}, body \in ResponseBodies,
        post \in {<<>>, <<Text, Blank>>}}

\* A call of classifier.classify_email whose HTTP exchange goes as given
ClassifyEmail(transport, toks) ==
    /\ TopIdle
    /\ probe' = [op |-> "classify_email", transport |-> transport,
                 response |-> IF transport = "response" THEN toks ELSE <<>>,
                 result |-> ClassifyEmailResult(transport, toks)]
    /\ UNCHANGED <<ruleFile, rules, last_loaded, store, conns, act, bc, bm, lb,
                   ncalls, dbFaulty, noAccount, bm2, bc2>>

NextClassifier ==
    \/ \E transport \in Transports \ {"response"} : ClassifyEmail(transport, <<>>)
    \/ \E toks \in ResponseTexts : ClassifyEmail("response", toks)

\* The classifier alone, on every exchange of the input set
SpecClassifier == Init /\ [][NextClassifier]_vars

\* classify_pending with the classifier itself in the loop: the result
\* written to the email is what classify_email returns on some exchange of
\* the input set (email_actions.py 524-546).
EveryClassifierResult ==
    { [category |-> r.category, confidence |-> r.confidence,
       reason |-> r.reason] :
        r \in {ClassifyEmailResult(t, <<>>) : t \in Transports \ {"response"}}
              \cup {ClassifyEmailResult("response", toks) :
                        toks \in ResponseTexts} }

NextConfidence ==
    \/ \E limit \in 1..NEmails : ClassifyPending(limit)
    \/ BcClassifyFrom(EveryClassifierResult)
    \/ BcDispatch
    \/ BcAfterDispatch
    \/ ActRun
    \/ ActCommit

SpecConfidence == Init /\ [][NextConfidence]_vars

----------------------------------------------------------------------------
(* Direct calls of ClassificationRule.matches on one loaded rule *)

p_bar == Str(<<"I","n","v","|","f","a","c"," ","|","U","U","R">>)
p_open == Str(<<"i","n","v","|">>)
p_plain == Str(<<"I","n","V">>)
p_x == Str(<<"x">>)

\* conditions: mappings of the rule file, each the only rule of its file
MatchConditions ==
    { << <<"subject_contains", p_bar>> >>,
      << <<"sender_contains", p_bar>> >>,
      << <<"body_contains", p_bar>> >>,
      << <<"subject_contains", p_open>> >>,
      << <<"subject_contains", p_plain>> >>,
      << <<"has_attachments", Bool(TRUE)>> >>,
      << <<"sender_contains", Bool(TRUE)>> >>,
      << <<"subject_regex", p_x>> >>,
      << <<"subject_regex", p_x>>, <<"older_than", Bool(TRUE)>> >>,
      << <<"subject_contains", p_plain>>, <<"subject_regex", p_x>> >>,
      << <<"subject_regex", p_x>>, <<"subject_contains", p_plain>> >>,
      << <<"subject_regex", p_x>>, <<"has_attachments", Bool(TRUE)>> >>,
      << <<"subject_regex", p_x>>, <<"sender_contains", Bool(TRUE)>> >>,
      << <<"subject_contains", p_bar>>, <<"older_than", Bool(TRUE)>>,
         <<"has_attachments", Bool(TRUE)>> >> }

MatchFiles ==
    {[kind |-> "ok",
      entries |-> <<Entry("probe", 1, cs, Str(<<"s","p","a","m">>), None, FALSE)>>] :
        cs \in MatchConditions}

MatchFields ==
    {NoneV, Str(<<>>), Str(<<"x","I","n","V","y">>), Str(<<"a"," ","F","a","C">>), Str(<<"z","u","u","r">>),
     Str(<<"i","n"," ","f","a"," ","u","u">>), Str(<<"I","|","f">>)}

MatchEmails ==
    {EmailData(su, se, bo, ha, <<>>) :
        su \in MatchFields,
        se \in {NoneV, Str(<<"a"," ","F","a","C">>)},
        bo \in {Str(<<>>), Str(<<"z","u","u","r">>)},
        ha \in BOOLEAN}
    \cup {EmailData(Str(<<"z","u","u","r">>), se, bo, FALSE, <<>>) :
            se \in MatchFields, bo \in MatchFields}

\* The parser has loaded a file holding one rule
InitMatch ==
    /\ ruleFile \in MatchFiles
    /\ rules = LoadRulesResult(<<>>, FALSE, ruleFile, FALSE).rules
    /\ last_loaded = TRUE
    /\ probe = NoProbe
    /\ PipeInit
    /\ dbFaulty = FALSE
    /\ noAccount = {}
    /\ bm2 = IdleBm
    /\ bc2 = IdleBc

NextMatch == \E e \in MatchEmails : RuleMatches(1, e)

SpecMatch == InitMatch /\ [][NextMatch]_vars

----------------------------------------------------------------------------
(* Loading rule files that hold rejected entries *)

c_one == << <<"subject_contains", Str(<<"a">>)>> >>

\* A missing conditions key reads as the empty mapping
\* (rule_data.get('conditions', {})), so both are the empty sequence here.
LoadEntrySet ==
    { Entry("low", 1, c_one, Str(<<"s","p","a","m">>), None, FALSE),
      Entry("high", 2, c_one, Str(<<"I","n","v","o","i","c","e">>), "Archive", FALSE),
      Entry("plain", 1, c_one, NoneV, None, FALSE),
      Entry(None, 3, c_one, Str(<<"s","p","a","m">>), None, FALSE),
      Entry("", 3, c_one, Str(<<"s","p","a","m">>), None, FALSE),
      Entry("bare", 3, <<>>, Str(<<"s","p","a","m">>), None, FALSE),
      Entry("odd", 3, c_one, Str(<<"j","u","n","k">>), None, FALSE) }

LoadFiles ==
    {[kind |-> "ok", entries |-> es] :
        es \in {q \in SeqsUpTo(LoadEntrySet, MaxRules) : IsInjective(q)}}

InitLoad ==
    /\ ruleFile \in LoadFiles
    /\ rules = <<>>
    /\ last_loaded = FALSE
    /\ probe = NoProbe
    /\ PipeInit
    /\ dbFaulty = FALSE
    /\ noAccount = {}
    /\ bm2 = IdleBm
    /\ bc2 = IdleBc

NextLoad == \E force \in BOOLEAN : LoadRules(force)

SpecLoad == InitLoad /\ [][NextLoad]_vars

----------------------------------------------------------------------------
(* The rule file edited between loads *)

\* <rules_dir>/global_rules.yaml is replaced on disk; the parser object is
\* not told (rules_parser.py 156-158 read the file at each load).
WriteRuleFile(file) ==
    /\ TopIdle
    /\ file # ruleFile
    /\ ruleFile' = file
    /\ UNCHANGED <<rules, last_loaded, probe, store, conns, act, bc, bm, lb,
                   ncalls, dbFaulty, noAccount, bm2, bc2>>

\* Files of at most one entry, no file, and a file that is not valid YAML
ReloadFiles == {f \in RuleFiles : Len(f.entries) <= 1}

InitReload ==
    /\ ruleFile \in ReloadFiles
    /\ rules = <<>>
    /\ last_loaded = FALSE
    /\ probe = NoProbe
    /\ PipeInit
    /\ dbFaulty = FALSE
    /\ noAccount = {}
    /\ bm2 = IdleBm
    /\ bc2 = IdleBc

NextReload ==
    \/ \E f \in ReloadFiles : WriteRuleFile(f)
    \/ \E force \in BOOLEAN : LoadRules(force)
    \/ \E e \in ProbeEmails : FindRule(e)

SpecReload == InitReload /\ [][NextReload]_vars

----------------------------------------------------------------------------
(* The pipeline under a rule on attachment names *)

AttachRuleFile ==
    [kind |-> "ok",
     entries |->
       << Entry("Pdf invoices", 100,
                << <<"attachment_name_contains", Str(<<"P","D","F">>)>> >>,
                Str(<<"i","n","v","o","i","c","e">>), "Finance/Invoices", FALSE),
          Entry("Spam with attachment", 10,
                << <<"subject_contains", Str(<<"c","a","s">>)>>,
                   <<"has_attachments", Bool(TRUE)>> >>,
                Str(<<"s","p","a","m">>), None, TRUE) >>]

InitAttach ==
    /\ ruleFile = AttachRuleFile
    /\ rules = <<>>
    /\ last_loaded = FALSE
    /\ probe = NoProbe
    /\ PipeInit
    /\ dbFaulty = FALSE
    /\ noAccount = {}
    /\ bm2 = IdleBm
    /\ bc2 = IdleBc

\* The three entry points of the pipeline, and find_matching_rule called
\* directly on the rows that have attachments, with the names
NextAttach ==
    \/ \E limit \in 1..NEmails : ClassifyPending(limit)
    \/ \E id \in EmailIds : ClassifySingleEmail(id)
    \/ \E id \in EmailIds : ApplyClassificationAction(id, "INVOICE")
    \/ BcClassify
    \/ BcDispatch
    \/ BcAfterDispatch
    \/ ActRun
    \/ ActCommit
    \/ \E id \in {i \in EmailIds : EmailRow(i).has_attachments} :
          FindRule(EmailRow(id))

SpecAttach == InitAttach /\ [][NextAttach]_vars

----------------------------------------------------------------------------
(* Properties *)

Lifecycle == <<"PENDING", "PROCESSING", "CLASSIFIED", "ARCHIVED">>

Rank(status) == CHOOSE k \in 1..Len(Lifecycle) : Lifecycle[k] = status

InLifecycle(status) == \E k \in 1..Len(Lifecycle) : Lifecycle[k] = status

\* C1: over any sequence of classify_pending, classify_single_email,
\* apply_classification_action and bulk_move_emails calls, the status of
\* an email only advances along PENDING -> PROCESSING -> CLASSIFIED ->
\* ARCHIVED (or jumps to ERROR): no step moves it from a later status of
\* the lifecycle to an earlier one, and none sets it back to PENDING.
C1_StatusOnlyAdvances ==
    [][\A id \in EmailIds :
          LET old == store[id].status
              new == store'[id].status
          IN  /\ (InLifecycle(old) /\ InLifecycle(new)) => Rank(new) >= Rank(old)
              /\ new = "PENDING" => old = "PENDING"]_vars

\* C2: in classify_pending, when apply_classification_action ended with
\* status=error for an email, the loop counts the email in errors and sets
\* its status to ERROR, and the committed category, confidence and reason
\* stay as they were.
C2_DispatchFailureCounted ==
    [][(/\ bc.kind = "bulk"
        /\ bc.pc = "dispatch"
        /\ act.pc = "done"
        /\ act.result = "error"
        /\ bc' # bc)
       => LET id == bc.emails[bc.i]
          IN  /\ bc'.errors = bc.errors + 1
              /\ store'[id].status = "ERROR"
              /\ store'[id].category = store[id].category
              /\ store'[id].classification_confidence =
                     store[id].classification_confidence
              /\ store'[id].classification_reason =
                     store[id].classification_reason]_vars

IsSortedStable(rs) ==
    \A i, j \in 1..Len(rs) :
        i < j => \/ rs[i].priority > rs[j].priority
                 \/ rs[i].priority = rs[j].priority /\ rs[i].line < rs[j].line

\* C3: after load_rules the rule list is in non-increasing priority order,
\* equal priorities in source-file order, and find_matching_rule returns
\* the first rule of the list that matches: the highest-priority matching
\* rule, the earlier one in the file on a tie, none when no rule matches.
C3_FirstMatchByPriority ==
    /\ IsSortedStable(rules)
    /\ probe.op = "find_matching_rule" =>
         LET e == probe.email_data
             r == probe.result
             matching == {k \in 1..Len(rules) : Matches(rules[k], e)}
         IN  IF matching = {}
             THEN r = NoneV
             ELSE /\ r.kind = "rule"
                  /\ \E k \in matching :
                        /\ rules[k] = r
                        /\ \A m \in matching : k <= m
                  /\ \A m \in matching :
                        \/ rules[m].priority < r.priority
                        \/ rules[m].priority = r.priority /\ rules[m].line >= r.line

\* C3 witness: two loaded rules of equal priority both match the email and
\* the one earlier in the file was returned.
C3_Witness ==
    /\ probe.op = "find_matching_rule"
    /\ probe.result.kind = "rule"
    /\ \E m \in 1..Len(rules) :
          /\ Matches(rules[m], probe.email_data)
          /\ rules[m].priority = probe.result.priority
          /\ rules[m].line > probe.result.line
          /\ rules[m].name # probe.result.name

\* C4: matches returns true iff every declared condition of the rule
\* holds for the email; a rule with has_attachments: true and
\* subject_contains does not match an email for which only one holds.
C4_MatchesIsConjunction ==
    probe.op = "matches" =>
        probe.result =
            (\A i \in 1..Len(probe.rule.conditions) :
                ConditionResult(probe.rule.conditions[i][1],
                                probe.rule.conditions[i][2],
                                probe.email_data) = "ok")

\* C4 witness: the rule with subject_contains and has_attachments: true,
\* on an email whose subject matches but which has no attachment.
C4_Witness ==
    /\ probe.op = "matches"
    /\ probe.rule.conditions = << <<"subject_contains", Str(s_cas)>>,
                                  <<"has_attachments", Bool(TRUE)>> >>
    /\ Contains(Lower(OrEmpty(probe.email_data.subject)), s_cas)
    /\ ~probe.email_data.has_attachments
    /\ probe.result = FALSE

NoRule(a) == \A k \in 1..Len(a.actions_taken) : a.actions_taken[k].tag # "matched_rule"

HasTag(a, t) == \E k \in 1..Len(a.actions_taken) : a.actions_taken[k] = t

\* apply_classification_action for a SPAM email that no rule matched, once
\* the connector calls were made
SpamDefaultRan ==
    /\ act.pc \in {"commit", "done"}
    /\ act.category = "SPAM"
    /\ NoRule(act)
    /\ act.calls # <<>>

MoveReturned ==
    /\ act.pc \in {"commit", "done"}
    /\ act.calls # <<>>
    /\ act.calls[1].op = "move"
    /\ act.calls[1].ret \in {"true", "false"}

\* C6: when move_email returns false the call still returns success and
\* the email becomes CLASSIFIED, archived_folder is left unchanged and
\* there is no moved_to tag; the moved_to tag and archived_folder = folder
\* appear exactly when move_email returned true.
C6_FailedMoveNotFatal ==
    /\ [](/\ MoveReturned
               => /\ act.calls[1].folder = act.target_folder
                  /\ HasTag(act, Tag("moved_to", act.target_folder))
                       <=> act.calls[1].ret = "true"
                  /\ act.calls[1].ret = "true"
                       => store[act.email_id].archived_folder = act.target_folder
                  /\ act.pc = "done"
                       => /\ act.result = "success"
                          /\ store[act.email_id].status = "CLASSIFIED"
          /\ (act.pc # "idle" /\ ~MoveReturned)
               => \A k \in 1..Len(act.actions_taken) :
                      act.actions_taken[k].tag # "moved_to")
    /\ [][(/\ act.pc \in {"act", "commit"}
           /\ store'[act.email_id].archived_folder
                  # store[act.email_id].archived_folder)
          => /\ act'.calls # <<>>
             /\ act'.calls[1] = [op |-> "move", folder |-> act.target_folder,
                                 ret |-> "true"]
             /\ store'[act.email_id].archived_folder = act.target_folder]_vars

\* C6 witness: move_email returned false, the call succeeded, the email is
\* CLASSIFIED with no archived_folder and no moved_to tag.
C6_Witness ==
    /\ MoveReturned
    /\ act.pc = "done"
    /\ act.calls[1].ret = "false"
    /\ act.result = "success"
    /\ store[act.email_id].status = "CLASSIFIED"
    /\ store[act.email_id].archived_folder = None
    /\ ~HasTag(act, Tag("moved_to", act.target_folder))

\* The subsequence of q at the positions in S
Sel(q, S) ==
    LET F[k \in 0..Len(q)] ==
            IF k = 0 THEN <<>>
            ELSE IF k \in S THEN Append(F[k - 1], q[k]) ELSE F[k - 1]
    IN  F[Len(q)]

\* C7: bulk_move_emails puts every input id in exactly one of succeeded
\* (in input order) or failed (with a reason), total = len(ids), and the
\* status is success when failed is empty, partial when both lists are
\* non-empty, error when succeeded is empty and failed is not.
C7_BulkMovePartition ==
    bm.pc = "done" =>
        LET ids == bm.email_ids
            pos == 1..Len(ids)
        IN  /\ bm.total = Len(ids)
            /\ \E S \in SUBSET pos :
                  /\ bm.succeeded = Sel(ids, S)
                  /\ [k \in 1..Len(bm.failed) |-> bm.failed[k].email_id]
                         = Sel(ids, pos \ S)
            /\ \A k \in 1..Len(bm.failed) : bm.failed[k].error \notin {None, ""}
            /\ bm.failed = <<>> => bm.result = "success"
            /\ (bm.failed # <<>> /\ bm.succeeded # <<>>) => bm.result = "partial"
            /\ (bm.failed # <<>> /\ bm.succeeded = <<>>) => bm.result = "error"

\* C7 witness: a batch in which one move failed and another succeeded
C7_Witness ==
    /\ bm.pc = "done"
    /\ bm.result = "partial"
    /\ bm.total = Len(bm.email_ids)
    /\ bm.succeeded # <<>>
    /\ \E k \in 1..Len(bm.failed) : bm.failed[k].error = "Move operation failed"

\* C8: during bulk_move_emails no email mutation is committed to the store
\* before the loop over all ids has finished: the only commit of email
\* changes is the one at the end of the batch.
C8_NoCommitBeforeLoopEnd ==
    [][bm.pc \in {"item", "move"} => store' = store]_vars

\* A connector is in use by the invocation that acquired it
HeldBy(c) ==
    \/ act.pc = "act" /\ act.conn = c
    \/ bm.pc = "move" /\ bm.conn = c
    \/ lb.pc = "apply" /\ lb.conn = c

\* C9: every connector acquired by apply_classification_action, by an item
\* of bulk_move_emails or by apply_label is disconnected before the
\* invocation returns, on every exit path; a disconnected connector is
\* never connected again, and each acquisition creates a new connector.
C9_ConnectorsScoped ==
    /\ [](\A c \in 1..Len(conns) : conns[c] # "closed" => HeldBy(c))
    /\ [][/\ \A c \in 1..Len(conns) :
                /\ conns[c] = "closed" => conns'[c] = "closed"
                /\ (HeldBy(c) /\ conns[c] # "closed") => conns'[c] = "closed"
          /\ \A c \in 1..Len(conns') :
                (conns'[c] # "closed") => c > Len(conns)]_vars

\* C9 witness: a move_email call raised inside apply_classification_action
\* and its connector is disconnected.
C9_Witness ==
    /\ act.pc = "done"
    /\ act.result = "error"
    /\ act.calls # <<>>
    /\ act.calls[1].ret = "raise"
    /\ act.conn \in 1..Len(conns)
    /\ conns[act.conn] = "closed"

\* C10: in classify_pending the category, confidence, reason and status
\* PROCESSING of an email are committed before apply_classification_action
\* is invoked for it.
C10_CommitBeforeDispatch ==
    [][(act.pc = "idle" /\ act'.pc # "idle" /\ act'.caller = "bc")
       => LET id == act'.email_id
          IN  /\ id = bc.emails[bc.i]
              /\ store[id].status = "PROCESSING"
              /\ store[id].category = bc.category
              /\ store[id].category = act'.category
              /\ store[id].classification_confidence = bc.confidence
              /\ store[id].classification_reason = bc.reason
              /\ bc.confidence >= 0]_vars

\* C10 witness: classify_pending has invoked the dispatcher for an email
\* whose stored classification is the one just computed.
C10_Witness ==
    /\ bc.kind = "bulk"
    /\ bc.pc = "dispatch"
    /\ act.pc = "act"
    /\ act.caller = "bc"
    /\ store[act.email_id].status = "PROCESSING"
    /\ store[act.email_id].category = bc.category

\* The response text holds one JSON object, from its first "{" to its last
\* "}", whose category is a string (or missing) and whose confidence is a
\* number (or missing).
Parseable(toks) ==
    \E i, j \in 1..Len(toks) :
        /\ i < j
        /\ toks[i] = LBrace /\ \A k \in 1..(i - 1) : toks[k] # LBrace
        /\ toks[j] = RBrace /\ \A k \in (j + 1)..Len(toks) : toks[k] # RBrace
        /\ \/ j = i + 1
           \/ /\ j = i + 2
              /\ toks[i + 1].t = "members"
              /\ toks[i + 1].category.kind \in {"absent", "str"}
              /\ toks[i + 1].confidence.kind \in {"absent", "int", "float", "numstr"}

\* classify_email was called and the exchange ended in one of the failures
ClassifierFailed ==
    /\ probe.op = "classify_email"
    /\ \/ probe.transport \in {"timeout", "http_error"}
       \/ probe.transport = "response" /\ ~Parseable(probe.response)

StaticFolder ==
    [c \in EmailCategory |->
        CASE c = "INVOICE" -> "Finance/Invoices"
          [] c = "RECEIPT" -> "Finance/Receipts"
          [] c = "DOCUMENT" -> "Documents"
          [] c = "NEWSLETTER" -> "Newsletters"
          [] c = "PROMOTION" -> "Promotions"
          [] c = "SOCIAL" -> "Social"
          [] c = "NOTIFICATION" -> "Notifications"
          [] c \in {"PROFESSIONAL", "PERSONAL", "SPAM", "UNKNOWN"} -> None]

\* apply_classification_action found its email and account
ActLoaded ==
    /\ act.pc # "idle"
    /\ act.email_id \in EmailIds
    /\ AccountOf(act.email_id) # None

\* C12: apply_classification_action decides folder and deletion from its
\* own rule match on the email's fields: with a matching rule, folder =
\* rule.folder and delete = rule.auto_delete whatever category was passed;
\* with none, folder comes from the static table and delete holds iff the
\* category is SPAM.
C12_DecisionFromOwnRuleMatch ==
    ActLoaded =>
        LET e == EmailDataOf(act.email_id)
            matching == {k \in 1..Len(rules) : Matches(rules[k], e)}
        IN  IF matching # {}
            THEN LET first == CHOOSE k \in matching : \A m \in matching : k <= m
                 IN  /\ act.target_folder = rules[first].folder
                     /\ act.should_delete = rules[first].auto_delete
            ELSE /\ act.target_folder = StaticFolder[act.category]
                 /\ act.should_delete = (act.category = "SPAM")

\* C12 witness: a call that passed SPAM for an email matched by the invoice
\* rule: the rule's folder, no deletion.
C12_Witness ==
    /\ ActLoaded
    /\ act.category = "SPAM"
    /\ HasTag(act, Tag("matched_rule", "Invoice by subject"))
    /\ act.target_folder = "Finance/Invoices"
    /\ ~act.should_delete

\* The conditions of the probed rule whose type matches knows
KnownConditions ==
    {i \in 1..Len(probe.rule.conditions) :
        probe.rule.conditions[i][1] \in ConditionTypes}

\* C13: a condition of an unrecognised type is treated as satisfied:
\* the result of matches is the conjunction of the conditions of known
\* type alone, so adding an unknown-type condition never changes it and a
\* rule whose conditions are all of unknown type matches every email.
C13_UnknownConditionSatisfied ==
    probe.op = "matches" =>
        /\ probe.result =
             (\A i \in KnownConditions :
                 ConditionResult(probe.rule.conditions[i][1],
                                 probe.rule.conditions[i][2],
                                 probe.email_data) = "ok")
        /\ KnownConditions = {} => probe.result = TRUE

\* C13 witness: a rule with an unknown-type condition before a known one
\* that holds, matching the email.
C13_Witness ==
    /\ probe.op = "matches"
    /\ probe.rule.conditions = << <<"subject_regex", p_x>>,
                                  <<"subject_contains", p_plain>> >>
    /\ probe.email_data.subject = Str(<<"x","I","n","V","y">>)
    /\ probe.result = TRUE

\* The alternatives of the '|'-delimited patterns of MatchConditions,
\* written out in lower case.
Alternatives(pattern) ==
    IF pattern = p_bar THEN {<<"i","n","v">>, <<"f","a","c">>, <<"u","u","r">>}
    ELSE IF pattern = p_open THEN {<<"i","n","v">>, <<>>}
    ELSE {}

\* The field a *_contains condition reads, lower-cased (absent reads as "")
FieldOf(ctype, email_data) ==
    Lower(OrEmpty(CASE ctype = "sender_contains" -> email_data.sender
                    [] ctype = "subject_contains" -> email_data.subject
                    [] ctype = "body_contains" -> email_data.body_preview))

\* C15: for sender_contains, subject_contains and body_contains, a
\* '|'-delimited pattern matches iff at least one of its alternatives is a
\* substring of the lower-cased field, whatever the letter case of field
\* and pattern.
C15_BarPatternIsAlternation ==
    (/\ probe.op = "matches"
     /\ Len(probe.rule.conditions) = 1
     /\ probe.rule.conditions[1][1] \in
            {"sender_contains", "subject_contains", "body_contains"}
     /\ probe.rule.conditions[1][2] \in {p_bar, p_open})
    => probe.result =
         (\E a \in Alternatives(probe.rule.conditions[1][2]) :
             Contains(FieldOf(probe.rule.conditions[1][1], probe.email_data),
                      a))

\* C15 witness: the three-alternative pattern on subject_contains matches
\* a subject holding the first alternative in mixed case.
C15_Witness ==
    /\ probe.op = "matches"
    /\ probe.rule.conditions = << <<"subject_contains", p_bar>> >>
    /\ probe.email_data.subject = Str(<<"x","I","n","V","y">>)
    /\ probe.result = TRUE

\* The entries of the rule source that C14 calls valid: a non-empty name,
\* non-empty conditions, and a category that is absent (read as unknown) or
\* names an EmailCategory in any letter case.
ValidEntry(e) ==
    /\ e.name \notin {None, ""}
    /\ e.conditions # <<>>
    /\ \/ e.category = NoneV
       \/ Upper(e.category.s) \in
            {<<"I","N","V","O","I","C","E">>, <<"R","E","C","E","I","P","T">>, <<"D","O","C","U","M","E","N","T">>, <<"P","R","O","F","E","S","S","I","O","N","A","L">>, <<"N","E","W","S","L","E","T","T","E","R">>,
             <<"P","R","O","M","O","T","I","O","N">>, <<"S","O","C","I","A","L">>, <<"N","O","T","I","F","I","C","A","T","I","O","N">>, <<"P","E","R","S","O","N","A","L">>, <<"S","P","A","M">>,
             <<"U","N","K","N","O","W","N">>}

\* C14: after a load, the loaded rule set holds exactly the valid entries
\* of the source, each once and under its own name: an entry with no name,
\* with missing or empty conditions or with a category that is no
\* EmailCategory name is absent, the valid entries before and after it are
\* present, and the load completed.
C14_InvalidEntriesSkipped ==
    probe.op = "load_rules" =>
        /\ last_loaded
        /\ {rules[k].line : k \in 1..Len(rules)} =
               {i \in 1..Len(ruleFile.entries) :
                    ValidEntry(ruleFile.entries[i])}
        /\ IsInjective([k \in 1..Len(rules) |-> rules[k].line])
        /\ \A k \in 1..Len(rules) :
               rules[k].name = ruleFile.entries[rules[k].line].name

\* C14 witness: a source with a valid entry, then an entry without
\* conditions, then a valid entry; both valid ones are loaded.
C14_Witness ==
    /\ probe.op = "load_rules"
    /\ Len(ruleFile.entries) = 3
    /\ ValidEntry(ruleFile.entries[1])
    /\ ruleFile.entries[2].conditions = <<>>
    /\ ValidEntry(ruleFile.entries[3])
    /\ Len(rules) = 2

\* C16: in classify_pending an exception raised while one email is
\* processed does not end the call: when the call has returned after
\* selecting a batch, every email of the batch has been processed and the
\* status is success; only a failure outside the per-email handling (the
\* query, which leaves the batch empty) gives status error.
C16_NoEarlyAbort ==
    (bc.kind = "bulk" /\ bc.pc = "done" /\ bc.emails # <<>>) =>
        /\ bc.processed = Len(bc.emails)
        /\ bc.result = "success"

\* C17: apply_classification_action called with an email id that does not
\* exist, or whose account does not exist, returns status=error in the
\* step that starts it, without acquiring a connector, calling move or
\* delete, or changing an email record (nor the loaded rules).
C17_NotFoundHasNoEffect ==
    [][(/\ ncalls' # ncalls
        /\ act'.email_id \notin EmailIds \/ act'.email_id \in noAccount) =>
          /\ act'.pc = "done"
          /\ act'.result = "error"
          /\ act'.conn = 0
          /\ act'.calls = <<>>
          /\ act'.pending = NoWrites
          /\ store' = store
          /\ conns' = conns
          /\ rules' = rules /\ last_loaded' = last_loaded]_vars

\* C17 witness: a call for a stored email whose account is gone has
\* returned an error.
C17_Witness ==
    /\ act.pc = "done"
    /\ act.email_id \in noAccount
    /\ act.result = "error"
    /\ act.calls = <<>>

\* C18: apply_label on an email whose account is not of type GMAIL
\* returns status=error with the message "only supported for Gmail" in the
\* step that starts it; it neither acquires nor calls a connector and
\* changes no record.
C18_NonGmailLabelRejected ==
    [][(/\ ncalls' # ncalls
        /\ lb'.label # None
        /\ lb'.email_id \in EmailIds \ noAccount
        /\ AccountOf(lb'.email_id) \in {"IMAP", "OUTLOOK"}) =>
          /\ lb'.pc = "done"
          /\ lb'.result = "error"
          /\ lb'.error = "Labels are only supported for Gmail accounts"
          /\ lb'.conn = 0
          /\ lb'.calls = 0
          /\ conns' = conns
          /\ store' = store]_vars

\* C18 witness: a label call on the email of the IMAP account has returned
\* the Gmail-only error.
C18_Witness ==
    /\ lb.pc = "done"
    /\ lb.email_id \in EmailIds \ noAccount
    /\ AccountOf(lb.email_id) = "IMAP"
    /\ lb.error = "Labels are only supported for Gmail accounts"

\* C19: apply_label on a Gmail account whose connector was created and
\* connected calls the connector's label operation exactly once, and
\* returns success iff that operation returned true.
C19_LabelOperationCalledOnce ==
    (/\ lb.pc = "done"
     /\ lb.email_id \in EmailIds \ noAccount
     /\ AccountOf(lb.email_id) = "GMAIL"
     /\ lb.conn # 0
     /\ lb.error # "exception") =>
        /\ lb.calls = 1
        /\ lb.result = "success" <=> lb.error = None

\* C20: in classify_pending and classify_single_email, an email for which
\* find_matching_rule returns a rule is stored with the rule's category,
\* confidence 95 and the reason "Matched rule: <rule name>", and the
\* classifier is not called for it; the classifier is called exactly when
\* no rule matches, and then category, confidence and reason are those of
\* the classifier's result.
C20_RuleBeforeClassifier ==
    [][(bc.pc = "loop" /\ bc' # bc) =>
          LET id == bc.emails[bc.i]
              rule == FindMatchingRule(rules, last_loaded, ruleFile,
                                       EmailDataOf(id)).rule
              row == store'[id]
          IN  IF rule.kind = "rule"
              THEN /\ bc'.classifier_calls = bc.classifier_calls
                   /\ bc'.pc = "dispatch" =>
                        /\ row.category = rule.category
                        /\ row.classification_confidence = 95
                        /\ row.classification_reason =
                               [kind |-> "rule", name |-> rule.name]
              ELSE /\ bc'.classifier_calls = bc.classifier_calls + 1
                   /\ bc'.pc = "dispatch" =>
                        \E r \in ClassifierResults :
                            /\ row.category = r.category
                            /\ row.classification_confidence = r.confidence
                            /\ row.classification_reason = r.reason]_vars

\* C20 witness: the second email, whose subject the rule "Invoice by
\* subject" matches, is stored with the rule's classification and the
\* classifier was not called.
C20_Witness ==
    /\ bc.pc = "dispatch"
    /\ bc.emails[bc.i] = 2
    /\ bc.classifier_calls = 0
    /\ store[2].category = "INVOICE"
    /\ store[2].classification_confidence = 95
    /\ store[2].classification_reason =
           [kind |-> "rule", name |-> "Invoice by subject"]

\* The store after one invocation, run alone on st, moved the ids of its
\* succeeded list
AfterBatch(st, f) ==
    [id \in EmailIds |->
        IF id \in Ids(f.succeeded)
        THEN [st[id] EXCEPT !.archived_folder = f.folder,
                            !.status = "ARCHIVED"]
        ELSE st[id]]

\* Every id of the batch is in exactly one of the two lists, in input order
Partitioned(f) ==
    \E S \in SUBSET (1..Len(f.email_ids)) :
        /\ f.succeeded = Sel(f.email_ids, S)
        /\ [k \in 1..Len(f.failed) |-> f.failed[k].email_id]
               = Sel(f.email_ids, (1..Len(f.email_ids)) \ S)

\* C21: two bulk_move_emails invocations on disjoint id sets, interleaved
\* in any order of their steps, end with the email records that running
\* one after the other (in either order) gives for the same outcomes of
\* the moves, and each with its own succeeded and failed lists.
C21_DisjointBatchesSerializable ==
    (bm.pc = "done" /\ bm2.pc = "done") =>
        LET initial == [id \in EmailIds |-> NewRow]
        IN  /\ store = AfterBatch(AfterBatch(initial, bm), bm2)
            /\ store = AfterBatch(AfterBatch(initial, bm2), bm)
            /\ Partitioned(bm) /\ Partitioned(bm2)
            /\ Ids(bm.succeeded) \cap Ids(bm2.succeeded) = {}
            /\ bm.result = BulkStatus(bm.succeeded, bm.failed)
            /\ bm2.result = BulkStatus(bm2.succeeded, bm2.failed)

\* C21 witness: both invocations have returned, each having moved an
\* email of its own batch.
C21_Witness ==
    /\ bm.pc = "done" /\ bm2.pc = "done"
    /\ bm.succeeded # <<>> /\ bm2.succeeded # <<>>
    /\ \A id \in Ids(bm.succeeded) \cup Ids(bm2.succeeded) :
           store[id].status = "ARCHIVED"

\* C22: in one apply_classification_action invocation move and delete
\* exclude each other: at most one connector operation is called, move only
\* with a target folder set and no deletion requested, delete only when
\* deletion is requested; a rule with both a folder and auto_delete leads
\* to delete only.
C22_MoveDeleteExclusive ==
    /\ Len(act.calls) <= 1
    /\ \A k \in 1..Len(act.calls) :
          /\ act.calls[k].op = "move" =>
                /\ act.target_folder # None
                /\ ~act.should_delete
                /\ act.calls[k].folder = act.target_folder
          /\ act.calls[k].op = "delete" => act.should_delete

\* C22 witness: the rule with a folder and auto_delete matched, and the
\* invocation called delete and nothing else.
C22_Witness ==
    /\ act.pc = "done"
    /\ act.target_folder = "Trash/Old"
    /\ act.should_delete
    /\ Len(act.calls) = 1
    /\ act.calls[1].op = "delete"

\* C23: if acquiring or connecting the connector fails in
\* apply_classification_action (no connector was created, or the one
\* created never became connected), the call returns status=error with the
\* action tags accumulated before the failure, calls neither move nor
\* delete, and does not set the email's status to CLASSIFIED.
C23_AcquireFailureAborts ==
    [][(/\ ncalls' # ncalls
        /\ act'.email_id \in EmailIds \ noAccount
        /\ \/ conns' = conns
           \/ /\ Len(conns') = Len(conns) + 1
              /\ conns'[Len(conns')] # "connected") =>
          LET rule == FindMatchingRule(rules, last_loaded, ruleFile,
                                       EmailDataOf(act'.email_id)).rule
          IN  /\ act'.pc = "done"
              /\ act'.result = "error"
              /\ act'.calls = <<>>
              /\ act'.actions_taken =
                     IF rule.kind = "rule"
                     THEN <<Tag("matched_rule", rule.name)>> ELSE <<>>
              /\ store' = store]_vars

\* C23 witness: connect() raised for the second email, which a rule
\* matches; the call returned an error carrying the matched_rule tag, and
\* the connector is closed.
C23_Witness ==
    /\ act.pc = "done"
    /\ act.email_id = 2
    /\ act.result = "error"
    /\ act.calls = <<>>
    /\ act.conn # 0
    /\ act.actions_taken = <<Tag("matched_rule", "Invoice by subject")>>
    /\ store[2].status = "PENDING"

\* C24: classify_pending(limit) processes only emails that are PENDING
\* when it selects them, at most limit of them (processed <= limit), and
\* leaves every email it did not select unchanged.
C24_OnlySelectedPendingTouched ==
    /\ [](bc.kind = "bulk" =>
            /\ Len(bc.emails) <= bc.limit
            /\ bc.processed <= bc.limit
            /\ bc.processed <= Len(bc.emails))
    /\ [][(ncalls' # ncalls /\ bc'.kind = "bulk") =>
             \A k \in 1..Len(bc'.emails) :
                 store[bc'.emails[k]].status = "PENDING"]_vars
    /\ [][(bc.kind = "bulk" /\ bc.pc \in {"loop", "dispatch"}) =>
             \A id \in EmailIds \ Ids(bc.emails) : store'[id] = store[id]]_vars

\* C24 witness: a call with limit 1 has returned after processing one of
\* two PENDING emails; the other one is still as it was.
C24_Witness ==
    /\ bc.kind = "bulk" /\ bc.pc = "done"
    /\ bc.limit = 1
    /\ bc.processed = 1
    /\ \E id \in EmailIds \ Ids(bc.emails) : store[id] = NewRow

\* C25: every classification confidence the pipeline stores on an email
\* is an integer in 0..100: 95 with a rule match, 20 with the parser's
\* fallback, 0 with the classifier's error result, and otherwise the value
\* of the LLM answer brought into 0..100.
C25_StoredConfidenceInRange ==
    [][\A id \in EmailIds :
         store'[id].classification_confidence
             # store[id].classification_confidence =>
           LET n == store'[id].classification_confidence
               kind == store'[id].classification_reason.kind
           IN  /\ n \in 0..100
               /\ kind = "rule" => n = RuleConfidence
               /\ kind = "fallback" => n = 20
               /\ kind = "error" => n = 0]_vars

\* C25 witness: the first email, which no rule matches, carries the
\* confidence 100 of an LLM answer that said more, and the second email
\* the 95 of its rule.
C25_Witness ==
    /\ store[1].classification_confidence = 100
    /\ store[1].classification_reason.kind \notin {"rule", "fallback", "error"}
    /\ store[2].classification_confidence = RuleConfidence
    /\ store[2].classification_reason.kind = "rule"

\* C26: whenever bulk_classify_pending_emails has returned, by the success
\* return or by the top-level except, processed = classified + errors and
\* processed is at most the number of emails selected.
C26_CountersAddUp ==
    (bc.kind = "bulk" /\ bc.pc = "done") =>
        /\ bc.result \in {"success", "error"}
        /\ bc.processed = bc.classified + bc.errors
        /\ bc.processed <= Len(bc.emails)

\* C26 witness: a run over two emails returned through the top-level
\* except after one email was classified and the commit of the second one
\* failed twice.
C26_Witness ==
    /\ bc.kind = "bulk" /\ bc.pc = "done"
    /\ bc.result = "error"
    /\ Len(bc.emails) = 2
    /\ bc.processed = 2 /\ bc.classified = 1 /\ bc.errors = 1

\* apply_classification_action calls made for email id by invocation f
DispatchCount(f, id) == Cardinality({k \in 1..Len(f.dispatched) : f.dispatched[k] = id})

\* C27: over two classify_pending invocations that run concurrently, no
\* email is dispatched (apply_classification_action called for it) more
\* than once.
C27_DispatchedAtMostOnce ==
    \A id \in EmailIds :
        DispatchCount(bc, id) + DispatchCount(bc2, id) <= 1

\* C28: what apply_classification_action changes on an email row becomes
\* persistent in one commit: no step of the dispatcher puts a new
\* archived_folder or is_deleted into the store without the status
\* CLASSIFIED.
C28_ActionPersistedWithStatus ==
    [][\A id \in EmailIds :
         (/\ act.pc \in {"act", "commit"}
          /\ \/ store'[id].archived_folder # store[id].archived_folder
             \/ store'[id].is_deleted # store[id].is_deleted)
         => store'[id].status = "CLASSIFIED"]_vars

\* C29: load_rules(force_reload=True) on a rule file that cannot be parsed
\* returns with the rule set empty, whatever was loaded before, and with
\* the load time recorded; while the file stays unparseable every
\* find_matching_rule returns None and the rule set stays empty.
C29_FailedReloadEmptiesRules ==
    /\ [][(/\ ruleFile' = ruleFile /\ ruleFile.kind = "malformed"
            /\ probe'.op = "load_rules" /\ probe'.force_reload) =>
              /\ rules' = <<>>
              /\ last_loaded']_vars
    /\ [][(/\ ruleFile' = ruleFile /\ ruleFile.kind = "malformed"
            /\ rules = <<>>
            /\ probe'.op = "find_matching_rule") =>
              /\ probe'.result = NoneV
              /\ rules' = <<>>]_vars

\* C29 witness: rules were loaded, the file was then made unparseable, and
\* the forced reload has just returned with no rules and a load time.
C29_Witness ==
    /\ probe.op = "load_rules" /\ probe.force_reload /\ probe.had_rules
    /\ ruleFile.kind = "malformed"
    /\ rules = <<>>
    /\ last_loaded

\* The loaded rule called name has an attachment_name_contains condition
OnAttachmentNames(name) ==
    \E k \in 1..Len(rules) :
        /\ rules[k].name = name
        /\ \E j \in 1..Len(rules[k].conditions) :
               rules[k].conditions[j][1] = "attachment_name_contains"

\* C30: in classify_pending, classify_single_email and
\* apply_classification_action no email is ever matched by a rule that has
\* an attachment_name_contains condition, whatever attachments it has;
\* find_matching_rule returns such a rule only when it is given attachment
\* names.
C30_NoAttachmentNameMatchInPipeline ==
    /\ bc.reason.kind = "rule" => ~OnAttachmentNames(bc.reason.name)
    /\ \A id \in EmailIds :
          store[id].classification_reason.kind = "rule" =>
              ~OnAttachmentNames(store[id].classification_reason.name)
    /\ \A k \in 1..Len(act.actions_taken) :
          act.actions_taken[k].tag = "matched_rule" =>
              ~OnAttachmentNames(act.actions_taken[k].arg)
    /\ (/\ probe.op = "find_matching_rule"
        /\ probe.result # NoneV
        /\ OnAttachmentNames(probe.result.name))
       => probe.email_data.attachment_names # <<>>

\* C30 witness: the second email, which has an attachment Inv.pdf, went
\* through classification and dispatch without a rule match, and
\* find_matching_rule called with its attachment names returns the rule on
\* attachment names.
C30_Witness ==
    /\ store[2].status = "CLASSIFIED"
    /\ store[2].classification_reason.kind # "rule"
    /\ probe.op = "find_matching_rule"
    /\ probe.email_data = EmailRow(2)
    /\ probe.result # NoneV
    /\ probe.result.name = "Pdf invoices"

====
